---------------------------- MODULE Spec2Model ----------------------------
(***************************************************************************)
(* Folder registry (FolderManager, services/folder_manager.py) and folder  *)
(* deletion endpoint (remove_folder, api/routers/folders.py) of            *)
(* agent-brain-server, as a state machine.                                 *)
(*                                                                         *)
(* Coroutines run on one asyncio event loop: a coroutine runs atomically   *)
(* up to its next suspending await.  asyncio.to_thread bodies              *)
(* (_write_jsonl, _load_jsonl, unlink) run on a worker thread, one file    *)
(* system call per step.  Optional values are <<>> (None) or <<v>>.        *)
(***************************************************************************)
EXTENDS Integers, Sequences, FiniteSets, TLC

(* ------------------------------ bounds -------------------------------- *)

\* budget of environment events: calls made, jobs started, crashes
MaxEvents == 2

\* the coroutines that serve calls: two calls can be in flight at once
Workers == { 1, 2 }

\* coroutine 0 is the application's start-up
Tasks == { 0 } \cup Workers

None == <<>>

Some(v) == <<v>>

(* ------------------------------- paths -------------------------------- *)

\* A path is its sequence of components; a leading "/" makes it absolute.
\* The working directory of the process is /w.
Cwd == <<"w">>

\* The spellings callers use: /w/a, ./x/../a (relative to /w), /b
Spellings == { <<"/", "w", "a">>, <<".", "x", "..", "a">>, <<"/", "b">> }

RECURSIVE Norm(_, _)
\* Path.resolve(): drop ".", let ".." remove the component before it.
Norm(parts, acc) ==
    IF parts = <<>> THEN acc
    ELSE LET h == Head(parts) IN
         IF h = "." THEN Norm(Tail(parts), acc)
         ELSE IF h = ".."
              THEN Norm(Tail(parts),
                        IF acc = <<>> THEN acc ELSE SubSeq(acc, 1, Len(acc) - 1))
              ELSE Norm(Tail(parts), Append(acc, h))

\* str(Path(p).resolve()) without the resolution: the spelling absolute and kept
ResolveKeep(p) == IF Head(p) = "/" THEN p ELSE <<"/">> \o Cwd \o p

\* os.path.normpath in place of resolve(): a relative path is not made absolute
ResolveNormOnly(p) ==
    <<"/">> \o Norm(IF Head(p) = "/" THEN Tail(p) ELSE p, <<>>)

\* str(Path(p).resolve()): the canonical absolute path
Resolve(p) ==
    IF Head(p) = "/" THEN <<"/">> \o Norm(Tail(p), <<>>)
    ELSE <<"/">> \o Norm(p, Cwd)

(* ------------------------- records and lines -------------------------- *)

\* FolderRecord(folder_path, chunk_count, last_indexed, chunk_ids)
FolderRecord(p, n, ts, ids) ==
    [folder_path |-> p, chunk_count |-> n, last_indexed |-> ts, chunk_ids |-> ids]

\* the chunk_ids lists callers pass
ChunkIdLists == { <<>>, <<"c1", "c2">> }

\* the chunk_count values callers pass
ChunkCounts == { 0, 2 }

\* the counts a storage delete returns
DeletedCounts == { 0, 2 }

\* json.dumps(asdict(record)) with the chunk_ids left out
DumpNoIds(r) ==
    << <<"folder_path", r.folder_path>>,
       <<"chunk_count", r.chunk_count>>,
       <<"last_indexed", r.last_indexed>> >>

\* json.dumps(asdict(record)): one JSON object, the fields in dataclass order
Dump(r) ==
    << <<"folder_path", r.folder_path>>,
       <<"chunk_count", r.chunk_count>>,
       <<"last_indexed", r.last_indexed>>,
       <<"chunk_ids", r.chunk_ids>> >>

\* a JSON object has the key
HasKey(obj, k) == \E j \in 1..Len(obj) : obj[j][1] = k

\* data[k] of a parsed JSON object (the last occurrence of a key wins)
Lookup(obj, k) ==
    LET js == { j \in 1..Len(obj) : obj[j][1] = k }
        m  == CHOOSE j \in js : \A j2 \in js : j2 <= j
    IN obj[m][2]

\* A line of the file is the sequence of the key/value pairs of its JSON
\* object; <<>> is a line that is empty once stripped; a text that is no
\* JSON is the one pair <<"{", text>>, a JSON array the one pair <<"[", text>>.

\* what lines 197-209 do with one line: skip it as empty, raise, or succeed
LineError(line) ==
    CASE line = <<>> -> "empty"
      [] HasKey(line, "{") -> "JSONDecodeError"
      [] HasKey(line, "[") -> "TypeError"
      [] \E k \in { "folder_path", "chunk_count", "last_indexed", "chunk_ids" } :
            ~HasKey(line, k) -> "KeyError"
      [] OTHER -> "none"

\* a buggy except clause that catches the decode error only
CaughtDecodeOnly == { "JSONDecodeError" }

\* line 210: except (json.JSONDecodeError, KeyError, TypeError)
Caught == { "JSONDecodeError", "KeyError", "TypeError" }

\* json.loads(line) and the four data[...] reads succeed
WellFormed(line) == LineError(line) = "none"

\* the FolderRecord built from one well-formed line
ParseLine(line) ==
    FolderRecord(Lookup(line, "folder_path"), Lookup(line, "chunk_count"),
                 Lookup(line, "last_indexed"), Lookup(line, "chunk_ids"))

(* ------------------- the cache: an insertion-ordered dict -------------- *)

\* position of key p in the dict, 0 when absent
IndexOf(c, p) ==
    IF \E j \in 1..Len(c) : c[j].folder_path = p
    THEN CHOOSE j \in 1..Len(c) : c[j].folder_path = p
    ELSE 0

\* dict.get(p)
DictGet(c, p) == IF IndexOf(c, p) = 0 THEN None ELSE Some(c[IndexOf(c, p)])

\* a buggy dict[p] = r that always appends
DictAppend(c, r) == Append(c, r)

\* a buggy update that keeps the chunk_ids of the record it replaces
DictMerge(c, r) ==
    IF IndexOf(c, r.folder_path) = 0 THEN Append(c, r)
    ELSE [c EXCEPT ![IndexOf(c, r.folder_path)] =
             [r EXCEPT !.chunk_ids = c[IndexOf(c, r.folder_path)].chunk_ids \o r.chunk_ids]]

\* dict[p] = r: an existing key keeps its position, a new key goes last
DictSet(c, r) ==
    IF IndexOf(c, r.folder_path) = 0 THEN Append(c, r)
    ELSE [c EXCEPT ![IndexOf(c, r.folder_path)] = r]

\* a buggy pop that leaves the key in the dict (a get)
DictKeep(c, p) == c

\* dict.pop(p, None): the dict without the key
DictDel(c, p) ==
    LET j == IndexOf(c, p) IN
    IF j = 0 THEN c ELSE SubSeq(c, 1, j - 1) \o SubSeq(c, j + 1, Len(c))

RECURSIVE LoadLines(_, _)
\* the loop of _load_jsonl over the lines of the file
LoadLines(lines, records) ==
    IF lines = <<>> THEN records
    ELSE IF WellFormed(Head(lines))
         THEN LoadLines(Tail(lines), DictSet(records, ParseLine(Head(lines))))
         ELSE LoadLines(Tail(lines), records)

\* _load_jsonl, when it returns
LoadJsonl(lines) == LoadLines(lines, <<>>)

\* _load_jsonl raises: some line raises what line 210 does not catch
LoadRaises(lines) ==
    \E k \in 1..Len(lines) : LineError(lines[k]) \notin { "none", "empty" } \cup Caught

\* the lines _write_jsonl writes for a cache, in dict order
Serialize(c) == [j \in 1..Len(c) |-> Dump(c[j])]


\* list_folders' sort key order over the canonical paths of the model
PathOrder == << <<"/", "b">>, <<"/", "w", "a">> >>

\* sorted(cache.values(), key=folder_path)
SortedByPath(c) ==
    LET present == SelectSeq(PathOrder, LAMBDA p : IndexOf(c, p) # 0)
    IN [j \in 1..Len(present) |-> c[IndexOf(c, present[j])]]

(* ------------------------------ the state ------------------------------ *)

VARIABLES
    cache,        \* FolderManager._cache, in insertion order
    fs,           \* the files of state_dir: name -> None | Some(lines)
    lock,         \* FolderManager._lock: None | Some(holder)
    waiters,      \* the lock's FIFO of waiting coroutines
    booted,       \* initialize() has completed in this process
    pc,           \* where each coroutine (or its worker thread) stands
    frame,        \* locals of the FolderManager method a coroutine is in
    req,          \* locals of the remove_folder endpoint handler
    runningJob,   \* job coordinator: None | Some([id, folder_path])
    jobsStarted,  \* job coordinator: number of jobs started so far
    clock,        \* datetime.now(timezone.utc), in ticks
    events,       \* environment events so far (calls, jobs, crashes)
    search        \* the query pipeline's call in progress (rerank, fusion)

vars == << cache, fs, lock, waiters, booted, pc, frame, req, runningJob,
           jobsStarted, clock, events, search >>

\* no query-pipeline call has been made
NoSearch == [op |-> "none"]

\* self.jsonl_path = state_dir / "indexed_folders.jsonl"
JsonlPath == "indexed_folders.jsonl"

\* a buggy temp_path: the records are written in place
TempPathInPlace == JsonlPath

\* temp_path = self.jsonl_path.with_suffix(".jsonl.tmp")
TempPath == "indexed_folders.jsonl.tmp"

FileNames == { JsonlPath, "indexed_folders.jsonl.tmp" }

\* Path.replace(src, dst): atomic rename; onto itself it changes nothing
Rename(f, src, dst) ==
    IF src = dst THEN f ELSE [f EXCEPT ![dst] = f[src], ![src] = None]

HTTP_200_OK == 200

HTTP_404_NOT_FOUND == 404

HTTP_409_CONFLICT == 409

HTTP_500_INTERNAL_SERVER_ERROR == 500

EmptyFrame ==
    [op |-> "none", arg |-> <<>>, n |-> 0, ids |-> <<>>, record |-> None,
     ret |-> None, cont |-> "done", i |-> 0, loaded |-> <<>>, raised |-> FALSE]

\* the handler's locals, the calls it has made on the storage backend and
\* on the registry's remove_folder (as a mock records them), its response
EmptyReq ==
    [active |-> FALSE, folder_path |-> <<>>, normalized_path |-> <<>>,
     stats_running |-> 0, running_job |-> None, checked_at |-> 0,
     record |-> None, chunks_deleted |-> 0, calls |-> <<>>,
     returned |-> None, status |-> 0, resp_path |-> <<>>, resp_chunks |-> 0,
     cause |-> None]

\* what state_dir can hold when the process starts: nothing, or the file an
\* earlier run of the program left there
EarlierRuns ==
    { <<>>,
      << FolderRecord(<<"/", "w", "a">>, 2, 0, <<"c1", "c2">>) >>,
      << FolderRecord(<<"/", "b">>, 0, 0, <<>>),
         FolderRecord(<<"/", "w", "a">>, 2, 0, <<"c1", "c2">>) >> }

Init ==
    /\ cache = <<>>
    /\ \E c \in EarlierRuns :
          /\ fs = [f \in FileNames |->
                     IF f = JsonlPath /\ c # <<>> THEN Some(Serialize(c)) ELSE None]
    /\ lock = None
    /\ waiters = <<>>
    /\ booted = FALSE
    /\ pc = [t \in Tasks |-> "idle"]
    /\ frame = [t \in Tasks |-> EmptyFrame]
    /\ req = [t \in Tasks |-> EmptyReq]
    /\ runningJob = None
    /\ jobsStarted = 0
    /\ clock = 0
    /\ events = 0
    /\ search = NoSearch

(* ----------------------------- asyncio.Lock ---------------------------- *)

\* a buggy acquire() that never waits
CanAcquireAlways == TRUE

\* Lock.acquire() returns at once: not locked and nobody queued before
CanAcquire == lock = None /\ waiters = <<>>

\* the first waiter, woken by release(), resumes
CanWake(t) == lock = None /\ waiters # <<>> /\ Head(waiters) = t

\* a buggy lock whose newest waiter is woken first
EnqueueFirst(t, waitpc) ==
    /\ waiters' = <<t>> \o waiters
    /\ pc' = [pc EXCEPT ![t] = waitpc]
    /\ UNCHANGED << cache, lock, booted, req >>

\* acquire() on a held lock: append a future to _waiters and suspend
Enqueue(t, waitpc) ==
    /\ waiters' = Append(waiters, t)
    /\ pc' = [pc EXCEPT ![t] = waitpc]
    /\ UNCHANGED << cache, lock, booted, req >>

\* the variables no FolderManager method touches
RegistryFrame == UNCHANGED << fs, runningJob, jobsStarted, events >>

\* a coroutine calls m(arg, n, ids) on the FolderManager
CallMethod(t, m, arg, n, ids, cont) ==
    /\ frame' = [frame EXCEPT ![t] =
                    [EmptyFrame EXCEPT !.op = m, !.arg = arg, !.n = n,
                                       !.ids = ids, !.cont = cont]]
    /\ pc' = [pc EXCEPT ![t] = m \o "_enter"]

(* --------------------- DELETE /folders: remove_folder ------------------ *)
(* routers/folders.py lines 68-154.  The handler suspends in its awaits of *)
(* the job coordinator and of the storage backend; what follows a          *)
(* FolderManager method's return runs in the step of that return.          *)

\* a buggy normalization of the running job's path: the path as stored
RunningFolderRaw(job) == ResolveKeep(job.folder_path)

\* line 104: running_folder = str(Path(running_job.folder_path).resolve())
RunningFolder(job) == Resolve(job.folder_path)

\* a buggy conflict test that never fires
IsConflictNever(job, normalized_path) == FALSE

\* lines 103-105: a job is running and its folder is the target
IsConflict(job, normalized_path) ==
    job # None /\ RunningFolder(job[1]) = normalized_path

\* a buggy choice of delete operation: always by metadata
StorageCallByMetadata(record, normalized_path) ==
    [op |-> "delete_by_metadata", ids |-> <<>>, source |-> normalized_path]

\* lines 125-135: by ids when the record has ids, else by metadata
StorageCall(record, normalized_path) ==
    IF record.chunk_ids # <<>>
    THEN [op |-> "delete_by_ids", ids |-> record.chunk_ids, source |-> <<>>]
    ELSE [op |-> "delete_by_metadata", ids |-> <<>>, source |-> normalized_path]

\* a buggy 404 detail: the path as requested
NotFoundDetailRaw(r) == r.folder_path

\* line 119: the 404 detail names normalized_path
NotFoundDetail(r) == r.normalized_path

\* lines 115-135: get_folder returned; 404 when None, else call the storage
DeleteGot(t, record) ==
    /\ IF record = None
       THEN /\ req' = [req EXCEPT ![t].status = HTTP_404_NOT_FOUND,
                                  ![t].resp_path = NotFoundDetail(req[t])]
            /\ pc' = [pc EXCEPT ![t] = "done"]
       ELSE /\ req' = [req EXCEPT ![t].record = record,
                                  ![t].calls =
                           Append(req[t].calls,
                                  StorageCall(record[1], req[t].normalized_path))]
            /\ pc' = [pc EXCEPT ![t] = "del_storage"]
    /\ frame' = [frame EXCEPT ![t] = EmptyFrame]

\* a buggy response that reports the stored chunk_count
ChunksReportedStored(r) == r.record[1].chunk_count

\* line 152: chunks_deleted=chunks_deleted
ChunksReported(r) == r.chunks_deleted

\* lines 148-154: remove_folder returned (its result is not looked at); 200
DeleteRemoved(t) ==
    /\ req' = [req EXCEPT ![t].status = HTTP_200_OK,
                          ![t].resp_path = req[t].normalized_path,
                          ![t].resp_chunks = ChunksReported(req[t])]
    /\ frame' = [frame EXCEPT ![t] = EmptyFrame]
    /\ pc' = [pc EXCEPT ![t] = "done"]

\* a FolderManager method returns value to the code that awaited it
Resume(t, value) ==
    CASE frame[t].cont = "del_got" -> DeleteGot(t, value)
      [] frame[t].cont = "del_removed" -> DeleteRemoved(t)
      [] OTHER -> /\ pc' = [pc EXCEPT ![t] = frame[t].cont]
                  /\ frame' = [frame EXCEPT ![t].ret = value]
                  /\ UNCHANGED req

(* ------------------------ FolderManager methods ------------------------ *)
(* services/folder_manager.py.  A method is entered at pc "<m>_enter" with *)
(* its arguments in frame and returns its result through Resume.           *)

\* the end of `async with self._lock` followed by `return value`
ReleaseAndReturn(t, value) ==
    /\ lock' = None
    /\ Resume(t, value)

\* add_folder, lines 106-108: under the lock, store the record, start _persist
AddBody(t, r) ==
    /\ lock' = Some(t)
    /\ cache' = DictSet(cache, r)
    /\ pc' = [pc EXCEPT ![t] = "w_open"]
    /\ UNCHANGED << booted, req >>

\* add_folder, lines 96-106: normalize, timestamp, build the record, acquire
AddEnter(t) ==
    /\ pc[t] = "add_enter"
    /\ \E now \in {clock, clock + 1} :
          LET r == FolderRecord(Resolve(frame[t].arg), frame[t].n, now, frame[t].ids)
          IN /\ clock' = now
             /\ frame' = [frame EXCEPT ![t].record = Some(r)]
             /\ IF CanAcquire
                THEN AddBody(t, r) /\ UNCHANGED waiters
                ELSE Enqueue(t, "add_wait")
    /\ RegistryFrame
    /\ UNCHANGED search

\* add_folder resumes in acquire() with the lock granted
AddWake(t) ==
    /\ pc[t] = "add_wait"
    /\ CanWake(t)
    /\ waiters' = Tail(waiters)
    /\ AddBody(t, frame[t].record[1])
    /\ UNCHANGED << frame, clock >>
    /\ RegistryFrame
    /\ UNCHANGED search

\* _write_jsonl, lines 226-230: mkdir, open(temp_path, "w") truncates
WriteOpen(t) ==
    /\ pc[t] = "w_open"
    /\ fs' = [fs EXCEPT ![TempPath] = Some(<<>>)]
    /\ frame' = [frame EXCEPT ![t].i = 1]
    /\ pc' = [pc EXCEPT ![t] = "w_write"]
    /\ UNCHANGED << cache, lock, waiters, booted, req, runningJob, jobsStarted,
                    clock, events >>
    /\ UNCHANGED search

\* _write_jsonl, lines 231-233: one line per record; after the last, close
WriteLine(t) ==
    /\ pc[t] = "w_write"
    /\ IF frame[t].i <= Len(cache)
       THEN /\ fs' = [fs EXCEPT ![TempPath] =
                         Some(Append(fs[TempPath][1], Dump(cache[frame[t].i])))]
            /\ frame' = [frame EXCEPT ![t].i = frame[t].i + 1]
            /\ pc' = pc
       ELSE /\ pc' = [pc EXCEPT ![t] = "w_replace"]
            /\ UNCHANGED << fs, frame >>
    /\ UNCHANGED << cache, lock, waiters, booted, req, runningJob, jobsStarted,
                    clock, events >>
    /\ UNCHANGED search

\* _write_jsonl, line 236: temp_path.replace(self.jsonl_path)
WriteReplace(t) ==
    /\ pc[t] = "w_replace"
    /\ fs' = Rename(fs, TempPath, JsonlPath)
    /\ pc' = [pc EXCEPT ![t] = "persisted"]
    /\ UNCHANGED << cache, lock, waiters, booted, frame, req, runningJob,
                    jobsStarted, clock, events >>
    /\ UNCHANGED search

\* _write_jsonl as one step, for runs in which nothing can observe the
\* file between its system calls (no crash, no second process)
WriteJsonl(t) ==
    /\ pc[t] = "w_open"
    /\ fs' = Rename([fs EXCEPT ![TempPath] = Some(Serialize(cache))],
                    TempPath, JsonlPath)
    /\ pc' = [pc EXCEPT ![t] = "persisted"]
    /\ UNCHANGED << cache, lock, waiters, booted, frame, req, runningJob,
                    jobsStarted, clock, events >>
    /\ UNCHANGED search

\* the coroutine resumes after to_thread, leaves the lock, returns its record
PersistDone(t) ==
    /\ pc[t] = "persisted"
    /\ ReleaseAndReturn(t, frame[t].record)
    /\ UNCHANGED << cache, waiters, booted, clock >>
    /\ RegistryFrame
    /\ UNCHANGED search

\* remove_folder, lines 130-138: pop under the lock, persist when found
RemoveBody(t) ==
    LET p == Resolve(frame[t].arg)
        record == DictGet(cache, p)
    IN IF record # None
       THEN /\ lock' = Some(t)
            /\ cache' = DictDel(cache, p)
            /\ frame' = [frame EXCEPT ![t].record = record]
            /\ pc' = [pc EXCEPT ![t] = "w_open"]
            /\ UNCHANGED << booted, req >>
       ELSE /\ ReleaseAndReturn(t, None)
            /\ UNCHANGED << cache, booted >>

\* remove_folder, lines 128-130
RemoveEnter(t) ==
    /\ pc[t] = "rm_enter"
    /\ IF CanAcquire
       THEN RemoveBody(t) /\ UNCHANGED waiters
       ELSE Enqueue(t, "rm_wait") /\ UNCHANGED frame
    /\ UNCHANGED clock
    /\ RegistryFrame
    /\ UNCHANGED search

\* remove_folder resumes in acquire() with the lock granted
RemoveWake(t) ==
    /\ pc[t] = "rm_wait"
    /\ CanWake(t)
    /\ waiters' = Tail(waiters)
    /\ RemoveBody(t)
    /\ UNCHANGED clock
    /\ RegistryFrame
    /\ UNCHANGED search

\* get_folder, lines 160-162: the lookup, under the lock
GetBody(t) ==
    /\ ReleaseAndReturn(t, DictGet(cache, Resolve(frame[t].arg)))
    /\ UNCHANGED << cache, booted >>

\* get_folder on a free lock: acquire, read, release without suspending
GetEnter(t) ==
    /\ pc[t] = "get_enter"
    /\ IF CanAcquire
       THEN GetBody(t) /\ UNCHANGED waiters
       ELSE Enqueue(t, "get_wait") /\ UNCHANGED frame
    /\ UNCHANGED clock
    /\ RegistryFrame
    /\ UNCHANGED search

\* get_folder resumes in acquire() with the lock granted
GetWake(t) ==
    /\ pc[t] = "get_wait"
    /\ CanWake(t)
    /\ waiters' = Tail(waiters)
    /\ GetBody(t)
    /\ UNCHANGED clock
    /\ RegistryFrame
    /\ UNCHANGED search

\* list_folders, lines 146-147
ListBody(t) ==
    /\ ReleaseAndReturn(t, SortedByPath(cache))
    /\ UNCHANGED << cache, booted >>

\* list_folders on a free lock
ListEnter(t) ==
    /\ pc[t] = "list_enter"
    /\ IF CanAcquire
       THEN ListBody(t) /\ UNCHANGED waiters
       ELSE Enqueue(t, "list_wait") /\ UNCHANGED frame
    /\ UNCHANGED clock
    /\ RegistryFrame
    /\ UNCHANGED search

\* list_folders resumes in acquire() with the lock granted
ListWake(t) ==
    /\ pc[t] = "list_wait"
    /\ CanWake(t)
    /\ waiters' = Tail(waiters)
    /\ ListBody(t)
    /\ UNCHANGED clock
    /\ RegistryFrame
    /\ UNCHANGED search

\* clear, lines 169-175: empty the cache, unlink the file when it exists
ClearBody(t) ==
    /\ cache' = <<>>
    /\ IF fs[JsonlPath] # None
       THEN /\ lock' = Some(t)
            /\ pc' = [pc EXCEPT ![t] = "clear_unlink"]
            /\ UNCHANGED << frame, req >>
       ELSE ReleaseAndReturn(t, None)
    /\ UNCHANGED booted

\* clear on a free lock
ClearEnter(t) ==
    /\ pc[t] = "clear_enter"
    /\ IF CanAcquire
       THEN ClearBody(t) /\ UNCHANGED waiters
       ELSE Enqueue(t, "clear_wait") /\ UNCHANGED frame
    /\ UNCHANGED clock
    /\ RegistryFrame
    /\ UNCHANGED search

\* clear resumes in acquire() with the lock granted
ClearWake(t) ==
    /\ pc[t] = "clear_wait"
    /\ CanWake(t)
    /\ waiters' = Tail(waiters)
    /\ ClearBody(t)
    /\ UNCHANGED clock
    /\ RegistryFrame
    /\ UNCHANGED search

\* clear, line 172: to_thread(self.jsonl_path.unlink)
ClearUnlink(t) ==
    /\ pc[t] = "clear_unlink"
    /\ fs' = [fs EXCEPT ![JsonlPath] = None]
    /\ pc' = [pc EXCEPT ![t] = "persisted"]
    /\ UNCHANGED << cache, lock, waiters, booted, frame, req, runningJob,
                    jobsStarted, clock, events >>
    /\ UNCHANGED search

\* initialize, lines 67-75: load when the file exists
InitBody(t) ==
    /\ IF fs[JsonlPath] # None
       THEN /\ lock' = Some(t)
            /\ pc' = [pc EXCEPT ![t] = "init_load"]
            /\ UNCHANGED << frame, booted, req >>
       ELSE /\ ReleaseAndReturn(t, None)
            /\ booted' = TRUE
    /\ UNCHANGED cache

\* initialize on a free lock
InitEnter(t) ==
    /\ pc[t] = "init_enter"
    /\ IF CanAcquire
       THEN InitBody(t) /\ UNCHANGED waiters
       ELSE Enqueue(t, "init_wait") /\ UNCHANGED frame
    /\ UNCHANGED clock
    /\ RegistryFrame
    /\ UNCHANGED search

\* initialize resumes in acquire() with the lock granted
InitWake(t) ==
    /\ pc[t] = "init_wait"
    /\ CanWake(t)
    /\ waiters' = Tail(waiters)
    /\ InitBody(t)
    /\ UNCHANGED clock
    /\ RegistryFrame
    /\ UNCHANGED search

\* initialize, line 69: to_thread(self._load_jsonl)
InitLoad(t) ==
    /\ pc[t] = "init_load"
    /\ IF LoadRaises(fs[JsonlPath][1])
       THEN frame' = [frame EXCEPT ![t].raised = TRUE]
       ELSE frame' = [frame EXCEPT ![t].loaded = LoadJsonl(fs[JsonlPath][1])]
    /\ pc' = [pc EXCEPT ![t] = "init_loaded"]
    /\ UNCHANGED << cache, fs, lock, waiters, booted, req, runningJob,
                    jobsStarted, clock, events >>
    /\ UNCHANGED search

\* initialize, line 69: self._cache = <the loaded dict>, then leave the lock;
\* when _load_jsonl raised, the lock is left and the exception goes on
InitDone(t) ==
    /\ pc[t] = "init_loaded"
    /\ IF frame[t].raised
       THEN UNCHANGED << cache, booted, frame >>
       ELSE /\ cache' = frame[t].loaded
            /\ booted' = TRUE
            /\ frame' = [frame EXCEPT ![t].loaded = <<>>]
    /\ lock' = None
    /\ pc' = [pc EXCEPT ![t] = frame[t].cont]
    /\ UNCHANGED << waiters, clock, req >>
    /\ RegistryFrame
    /\ UNCHANGED search

(* ------------------------------- callers ------------------------------- *)

\* the variables no caller touches directly
CallerFrame ==
    UNCHANGED << cache, fs, lock, waiters, booted, runningJob, jobsStarted,
                 clock >>

\* the next event is a call, served by the first free coroutine; calls are
\* served once start-up has returned
NewCall(t) ==
    /\ booted
    /\ pc[0] = "idle"
    /\ events < MaxEvents
    /\ t \in Workers
    /\ pc[t] = "idle"
    /\ \A u \in Workers : u < t => pc[u] # "idle"
    /\ events' = events + 1

\* the application calls folder_manager.initialize(): at start-up, and later
InitCall(t) ==
    /\ IF booted
       THEN NewCall(t)
       ELSE t = 0 /\ pc[0] = "idle" /\ events' = events
    /\ CallMethod(t, "init", <<>>, 0, <<>>, "done")
    /\ UNCHANGED req
    /\ CallerFrame
    /\ UNCHANGED search

\* an indexing run records its folder: add_folder(folder_path, chunk_count, chunk_ids)
AddCall(t) ==
    /\ NewCall(t)
    /\ \E s \in Spellings, n \in ChunkCounts, ids \in ChunkIdLists :
          CallMethod(t, "add", s, n, ids, "done")
    /\ UNCHANGED req
    /\ CallerFrame
    /\ UNCHANGED search

\* a caller of remove_folder(folder_path) other than the endpoint
RemoveCall(t) ==
    /\ NewCall(t)
    /\ \E s \in Spellings : CallMethod(t, "rm", s, 0, <<>>, "done")
    /\ UNCHANGED req
    /\ CallerFrame
    /\ UNCHANGED search

\* a caller of get_folder(folder_path) other than the endpoint
GetCall(t) ==
    /\ NewCall(t)
    /\ \E s \in Spellings : CallMethod(t, "get", s, 0, <<>>, "done")
    /\ UNCHANGED req
    /\ CallerFrame
    /\ UNCHANGED search

\* GET /folders: routers/folders.py list_folders calls list_folders()
ListCall(t) ==
    /\ NewCall(t)
    /\ CallMethod(t, "list", <<>>, 0, <<>>, "done")
    /\ UNCHANGED req
    /\ CallerFrame
    /\ UNCHANGED search

\* a full reset calls clear()
ClearCall(t) ==
    /\ NewCall(t)
    /\ CallMethod(t, "clear", <<>>, 0, <<>>, "done")
    /\ UNCHANGED req
    /\ CallerFrame
    /\ UNCHANGED search

\* the caller takes the result; the coroutine ends
Return(t) ==
    /\ pc[t] = "done"
    /\ pc' = [pc EXCEPT ![t] = "idle"]
    /\ frame' = [frame EXCEPT ![t] = EmptyFrame]
    /\ req' = [req EXCEPT ![t] = EmptyReq]
    /\ UNCHANGED events
    /\ CallerFrame
    /\ UNCHANGED search

(* --------------------------- job coordinator --------------------------- *)

\* get_queue_stats().running
StatsRunning == IF runningJob = None THEN 0 ELSE 1

\* the worker starts an indexing job for a folder
JobStart ==
    /\ runningJob = None
    /\ events < MaxEvents
    /\ events' = events + 1
    /\ jobsStarted' = jobsStarted + 1
    /\ \E s \in Spellings :
          runningJob' = Some([id |-> jobsStarted + 1, folder_path |-> s])
    /\ UNCHANGED << cache, fs, lock, waiters, booted, pc, frame, req, clock >>
    /\ UNCHANGED search

\* the running job ends
JobFinish ==
    /\ runningJob # None
    /\ runningJob' = None
    /\ UNCHANGED << cache, fs, lock, waiters, booted, pc, frame, req,
                    jobsStarted, clock, events >>
    /\ UNCHANGED search

(* ------------------- DELETE /folders: the handler's steps -------------- *)

\* the request arrives; line 96 normalizes; line 99 awaits get_queue_stats()
DeleteCall(t) ==
    /\ NewCall(t)
    /\ \E s \in Spellings :
          req' = [req EXCEPT ![t] =
                     [EmptyReq EXCEPT !.active = TRUE, !.folder_path = s,
                                      !.normalized_path = Resolve(s)]]
    /\ pc' = [pc EXCEPT ![t] = "del_stats"]
    /\ UNCHANGED frame
    /\ CallerFrame
    /\ UNCHANGED search

\* line 115: record = await folder_manager.get_folder(normalized_path)
CallGetFolder(t) ==
    CallMethod(t, "get", req[t].normalized_path, 0, <<>>, "del_got")

\* lines 99-100: the coordinator answers get_queue_stats()
DeleteStats(t) ==
    /\ pc[t] = "del_stats"
    /\ req' = [req EXCEPT ![t].stats_running = StatsRunning,
                          ![t].checked_at = jobsStarted]
    /\ IF StatsRunning > 0
       THEN pc' = [pc EXCEPT ![t] = "del_job"] /\ UNCHANGED frame
       ELSE CallGetFolder(t)
    /\ UNCHANGED events
    /\ CallerFrame
    /\ UNCHANGED search

\* lines 102-112: the coordinator answers get_running_job(); 409 on a match
DeleteJob(t) ==
    /\ pc[t] = "del_job"
    /\ IF IsConflict(runningJob, req[t].normalized_path)
       THEN /\ req' = [req EXCEPT ![t].running_job = runningJob,
                                  ![t].checked_at = jobsStarted,
                                  ![t].status = HTTP_409_CONFLICT,
                                  ![t].resp_path = req[t].normalized_path]
            /\ pc' = [pc EXCEPT ![t] = "done"]
            /\ UNCHANGED frame
       ELSE /\ req' = [req EXCEPT ![t].running_job = runningJob,
                                  ![t].checked_at = jobsStarted]
            /\ CallGetFolder(t)
    /\ UNCHANGED events
    /\ CallerFrame
    /\ UNCHANGED search

\* line 148: await folder_manager.remove_folder(normalized_path)
CallRemoveFolder(t) ==
    CallMethod(t, "rm", req[t].normalized_path, 0, <<>>, "del_removed")

\* a buggy except clause that goes on to the registry update
AfterStorageErrorGoOn(t) ==
    /\ req' = [req EXCEPT ![t].cause = Some("Delete failed"),
                          ![t].calls = Append(req[t].calls,
                              [op |-> "remove_folder", ids |-> <<>>,
                               source |-> req[t].normalized_path])]
    /\ CallRemoveFolder(t)

\* lines 140-145: the storage call raised: 500 with the cause
AfterStorageError(t) ==
    /\ req' = [req EXCEPT ![t].status = HTTP_500_INTERNAL_SERVER_ERROR,
                          ![t].cause = Some("Delete failed")]
    /\ pc' = [pc EXCEPT ![t] = "done"]
    /\ UNCHANGED frame

\* lines 127/133 return a count; line 148 then calls remove_folder
AfterStorageOk(t, count) ==
    /\ req' = [req EXCEPT ![t].returned = Some(count),
                          ![t].chunks_deleted = count,
                          ![t].calls = Append(req[t].calls,
                              [op |-> "remove_folder", ids |-> <<>>,
                               source |-> req[t].normalized_path])]
    /\ CallRemoveFolder(t)

\* the storage backend executes the delete: it returns a count or raises
DeleteStorage(t) ==
    /\ pc[t] = "del_storage"
    /\ \/ \E count \in DeletedCounts : AfterStorageOk(t, count)
       \/ AfterStorageError(t)
    /\ UNCHANGED events
    /\ CallerFrame
    /\ UNCHANGED search

(* ------------------------------ the process ---------------------------- *)

\* the process dies at any point and is started again: a new FolderManager
\* (lines 53-56) over the same state_dir; the files stay as they are
Crash ==
    /\ events < MaxEvents
    /\ events' = events + 1
    /\ cache' = <<>>
    /\ lock' = None
    /\ waiters' = <<>>
    /\ booted' = FALSE
    /\ pc' = [t \in Tasks |-> "idle"]
    /\ frame' = [t \in Tasks |-> EmptyFrame]
    /\ req' = [t \in Tasks |-> EmptyReq]
    /\ runningJob' = None
    /\ UNCHANGED << fs, jobsStarted, clock >>
    /\ UNCHANGED search

\* the deletion endpoint with its collaborators: start-up, the indexing
\* runs that record folders, the job coordinator, the delete requests
Next ==
    \/ \E t \in Tasks :
          \/ InitCall(t) \/ InitEnter(t) \/ InitLoad(t) \/ InitDone(t)
          \/ AddCall(t) \/ AddEnter(t) \/ AddWake(t)
          \/ WriteJsonl(t) \/ PersistDone(t)
          \/ RemoveEnter(t) \/ RemoveWake(t)
          \/ GetEnter(t) \/ GetWake(t)
          \/ DeleteCall(t) \/ DeleteStats(t) \/ DeleteJob(t)
          \/ DeleteStorage(t)
          \/ Return(t)
    \/ JobStart
    \/ JobFinish

Spec == Init /\ [][Next]_vars

\* the FolderManager alone: every method called concurrently, and crashes
NextRegistry ==
    \/ \E t \in Tasks :
          \/ InitCall(t) \/ InitEnter(t) \/ InitWake(t) \/ InitLoad(t) \/ InitDone(t)
          \/ AddCall(t) \/ AddEnter(t) \/ AddWake(t)
          \/ WriteOpen(t) \/ WriteLine(t) \/ WriteReplace(t) \/ PersistDone(t)
          \/ RemoveCall(t) \/ RemoveEnter(t) \/ RemoveWake(t)
          \/ GetCall(t) \/ GetEnter(t) \/ GetWake(t)
          \/ ListCall(t) \/ ListEnter(t) \/ ListWake(t)
          \/ ClearCall(t) \/ ClearEnter(t) \/ ClearWake(t) \/ ClearUnlink(t)
          \/ Return(t)
    \/ Crash

SpecRegistry == Init /\ [][NextRegistry]_vars

(* ======================= the deletion endpoint ========================= *)
(* Properties of Spec.                                                     *)

\* the delete requests with an answer
Answered == { t \in Workers : req[t].active /\ req[t].status # 0 }

\* the running job, if any, indexes the folder of t's request
JobRunsOn(t) ==
    /\ runningJob # None
    /\ Resolve(runningJob[1].folder_path) = Resolve(req[t].folder_path)

\* a step of t's delete request
StepOf(t) == req[t].active /\ pc'[t] # pc[t]

\* C1 as stated: in every interleaving of a delete request for F with
\* indexing jobs that start and finish, the storage delete is never in
\* execution for F while a job whose folder is F is running.
C1_NoDeleteWhileJobRuns ==
    \A t \in Workers : pc[t] = "del_storage" => ~JobRunsOn(t)

\* C1 amended: while the storage delete for F is in execution, a running job
\* for F is one that started after the request's conflict check; a job for F
\* that was running at the check is never deleted under.
C1_NoDeleteUnderCheckedJob ==
    \A t \in Workers :
        pc[t] = "del_storage" /\ JobRunsOn(t)
            => runningJob[1].id > req[t].checked_at

\* C1 witness: the storage delete for F is in execution and a job for F runs
C1_Witness ==
    \E t \in Workers : pc[t] = "del_storage" /\ JobRunsOn(t)

\* C2: a delete request is answered 409 iff the coordinator reported
\* running > 0 and the running job's normalized path is the normalized F,
\* record or no record; a 409 request has called no storage delete and no
\* registry remove.
C2_ConflictIff ==
    \A t \in Answered :
        /\ req[t].status = 409
              <=> /\ req[t].stats_running > 0
                  /\ req[t].running_job # None
                  /\ Resolve(req[t].running_job[1].folder_path)
                        = Resolve(req[t].folder_path)
        /\ req[t].status = 409 => req[t].calls = <<>> /\ req[t].record = None

\* C2 witness: 409 for a folder without a record, the job's path spelled
\* differently from the canonical one
C2_Witness ==
    \E t \in Answered :
        /\ req[t].status = 409
        /\ DictGet(cache, Resolve(req[t].folder_path)) = None
        /\ req[t].running_job[1].folder_path # Resolve(req[t].folder_path)

\* C3 (answer): get_folder returns to a request that saw no running job,
\* and the registry has no record under the normalized path: the answer is
\* 404 naming the normalized path and nothing has been called.
C3_GetReturns(t) ==
    /\ req[t].active
    /\ pc[t] \in { "get_enter", "get_wait" }
    /\ pc'[t] \notin { "get_enter", "get_wait" }

\* C3 (step): the answer of such a request
C3_Answer ==
    \A t \in Workers :
        /\ C3_GetReturns(t)
        /\ req[t].stats_running = 0
        /\ DictGet(cache, Resolve(req[t].folder_path)) = None
        => /\ req'[t].status = 404
           /\ req'[t].resp_path = Resolve(req[t].folder_path)
           /\ req'[t].calls = <<>>
           /\ pc'[t] = "done"

\* C3 (registry): a step of a request that has called nothing leaves the
\* registry, in memory and on disk, as it was
C3_Untouched ==
    \A t \in Workers :
        StepOf(t) /\ req'[t].calls = <<>> => cache' = cache /\ fs' = fs

\* C3: with no job running and no record under the normalized path, a
\* delete request fails with 404 naming the normalized path, calls neither
\* storage delete nor the registry's remove, and leaves the registry unchanged.
C3_NotFound ==
    /\ [][C3_Answer /\ C3_Untouched]_vars
    /\ [](\A t \in Answered : req[t].status = 404 => req[t].calls = <<>>)

\* C3 witness: a 404 for a path given relative to the working directory
C3_Witness ==
    \E t \in Answered :
        /\ req[t].status = 404
        /\ req[t].stats_running = 0
        /\ req[t].folder_path # Resolve(req[t].folder_path)

\* the calls of the registry's remove in a request's log
RemoveCalls(t) == SelectSeq(req[t].calls, LAMBDA c : c.op = "remove_folder")

\* the calls of the storage's delete operations in a request's log
StorageCalls(t) == SelectSeq(req[t].calls, LAMBDA c : c.op # "remove_folder")

\* C4 (step): the step in which the storage raises
C4_Raise ==
    \A t \in Workers :
        req[t].cause = None /\ req'[t].cause # None
            => cache' = cache /\ fs' = fs /\ pc'[t] = "done"

\* C4: when the storage delete raises, the request fails with 500 carrying
\* the cause, the registry's remove is not called, and the request leaves
\* the record for F as it was.
C4_StorageFailure ==
    /\ [][C4_Raise]_vars
    /\ [](\A t \in Workers :
             req[t].cause # None
                 => /\ req[t].status = 500
                    /\ RemoveCalls(t) = <<>>
                    /\ pc[t] = "done")

\* C4 witness: a request answered 500 while the record is still registered
C4_Witness ==
    \E t \in Answered :
        /\ req[t].status = 500
        /\ req[t].cause # None
        /\ DictGet(cache, Resolve(req[t].folder_path)) = req[t].record

\* C8 (order): the request's remove takes the record out of the registry
\* only after the storage delete has returned
C8_RemoveAfterDelete ==
    \A t \in Workers :
        /\ StepOf(t)
        /\ DictGet(cache, Resolve(req[t].folder_path)) # None
        /\ DictGet(cache', Resolve(req[t].folder_path)) = None
        => req[t].returned # None /\ Len(StorageCalls(t)) = 1

\* C8 (return): at the step that answers 200 the registry has no record of F
C8_GoneAtReturn ==
    \A t \in Workers :
        req[t].active /\ req[t].status = 0 /\ req'[t].status = 200
            => DictGet(cache', Resolve(req[t].folder_path)) = None

\* C8: a successful delete has called the storage delete before removing
\* the record; when it returns the registry holds no record for F; the
\* response carries the count the storage returned and the normalized path.
C8_Success ==
    /\ [][C8_RemoveAfterDelete /\ C8_GoneAtReturn]_vars
    /\ [](\A t \in Answered :
             req[t].status = 200
                 => /\ Len(req[t].calls) = 2
                    /\ req[t].calls[1].op # "remove_folder"
                    /\ req[t].calls[2].op = "remove_folder"
                    /\ req[t].returned # None
                    /\ req[t].resp_chunks = req[t].returned[1]
                    /\ req[t].resp_path = Resolve(req[t].folder_path))

\* C8 witness: a 200 whose count differs from the record's chunk_count
C8_Witness ==
    \E t \in Answered :
        /\ req[t].status = 200
        /\ req[t].returned # Some(req[t].record[1].chunk_count)
        /\ DictGet(cache, Resolve(req[t].folder_path)) = None

\* C9: a request that reaches chunk deletion calls exactly one storage
\* delete: delete_by_ids with the record's chunk_ids when there are any,
\* else delete_by_metadata filtered on the normalized path.
C9_OneStorageCall ==
    \A t \in Workers :
        req[t].record # None
            => /\ Len(StorageCalls(t)) = 1
               /\ LET call == StorageCalls(t)[1]
                      ids == req[t].record[1].chunk_ids
                  IN IF ids # <<>>
                     THEN /\ call.op = "delete_by_ids"
                          /\ call.ids = ids
                     ELSE /\ call.op = "delete_by_metadata"
                          /\ call.source = Resolve(req[t].folder_path)

\* C9 witness: one request deleting by ids and one by metadata
C9_Witness ==
    \E t, u \in Workers :
        /\ req[t].record # None /\ req[u].record # None
        /\ req[t].calls[1].op = "delete_by_ids"
        /\ req[u].calls[1].op = "delete_by_metadata"

(* ============================ the registry ============================= *)
(* Properties of SpecRegistry.                                             *)

\* the primary file holds exactly registry c (no file: the empty registry)
FileHolds(c) ==
    \/ fs[JsonlPath] = Some(Serialize(c))
    \/ c = <<>> /\ fs[JsonlPath] = None

\* lines is the complete serialization of some registry: every line is a
\* whole record and the lines are what writing the loaded registry gives
CompleteFile(lines) ==
    /\ \A k \in 1..Len(lines) : WellFormed(lines[k])
    /\ Serialize(LoadJsonl(lines)) = lines

\* C6 (step): the primary file changes only to absent or to the whole
\* serialization of the registry after the mutation in progress
C6_WholeReplace ==
    fs'[JsonlPath] # fs[JsonlPath]
        => fs'[JsonlPath] = None \/ fs'[JsonlPath] = Some(Serialize(cache))

\* C6: at every moment, crashes at any step of a write included, the primary
\* file is absent or a complete serialization of the registry before or
\* after the mutation in progress: outside a mutation it holds the registry,
\* and it changes only to the registry after the mutation.
C6_PrimaryFileWhole ==
    /\ [][C6_WholeReplace]_vars
    /\ [](fs[JsonlPath] # None => CompleteFile(fs[JsonlPath][1]))
    /\ [](booted /\ lock = None => FileHolds(cache))

\* C6 witness: the process died in the middle of a write: a partial
\* temporary file next to a primary file that holds other lines
C6_Witness ==
    /\ ~booted
    /\ fs[TempPath] # None /\ fs[JsonlPath] # None
    /\ fs[TempPath][1] # fs[JsonlPath][1]
    /\ Len(fs[TempPath][1]) < Len(fs[JsonlPath][1])

\* t is suspended inside its critical section
InCS(t) ==
    pc[t] \in { "w_open", "w_write", "w_replace", "persisted", "clear_unlink",
                "init_load", "init_loaded" }

\* the process goes on: the step is no crash (the one event after which
\* no coroutine exists)
Alive == ~(events' # events /\ \A t \in Tasks : pc'[t] = "idle")

\* C7 (step): a change of the in-memory registry by a mutation leaves the
\* mutator inside its critical section with the write still to do
C7_PersistInside ==
    \A t \in Tasks :
        Alive /\ pc'[t] # pc[t] /\ cache' # cache /\ pc[t] # "init_loaded"
            => lock' = Some(t) /\ pc'[t] \in { "w_open", "clear_unlink" }

\* C7 (step): a critical section entered with a write to do is left only
\* when the write is over
C7_LeaveWhenWritten ==
    \A t \in Tasks :
        Alive /\ lock = Some(t) /\ lock' # Some(t)
            => pc[t] \in { "persisted", "init_loaded" }

\* C7 (step): a list or get that returns read a registry nobody was in the
\* middle of changing, and that the file holds
C7_CleanRead ==
    \A t \in Tasks :
        /\ pc[t] \in { "get_enter", "get_wait", "list_enter", "list_wait" }
        /\ pc'[t] \notin { "get_enter", "get_wait", "list_enter", "list_wait" }
        /\ Alive
        => /\ \A u \in Tasks : ~InCS(u)
           /\ lock = None
           /\ FileHolds(cache)

\* C7: at most one operation is inside its critical section at a time, a
\* mutation's write runs inside the critical section of its in-memory change,
\* and no list or get sees the registry between the two.
C7_Serialized ==
    /\ [](\A t, u \in Tasks : InCS(t) /\ InCS(u) => t = u)
    /\ [](\A t \in Tasks : InCS(t) => lock = Some(t))
    /\ [][C7_PersistInside /\ C7_LeaveWhenWritten /\ C7_CleanRead]_vars

\* C7 witness: a get or list waits while a mutation that has changed the
\* registry in memory has not finished its write
C7_Witness ==
    \E t, u \in Tasks :
        /\ pc[t] \in { "w_write", "w_replace" }
        /\ pc[u] \in { "get_wait", "list_wait" }
        /\ ~FileHolds(cache)

(* ==================== concurrent adds, different folders =============== *)
(* tests/test_folder_manager.py test_concurrent_adds_dont_corrupt: one     *)
(* FolderManager, one add_folder per folder, all gathered.                 *)

\* bound: the number of concurrent add_folder calls
MaxAdders == 3

\* the coroutines of the gather
Adders == 1..MaxAdders

\* the folder of the k-th call: pairwise different canonical paths, the
\* first one given relative to the working directory
FolderOf(k) ==
    CASE k = 1 -> <<".", "x", "..", "a">>
      [] k = 2 -> <<"/", "b">>
      [] OTHER -> <<"/", "d", ToString(k)>>

\* a fresh process with one coroutine per call, over what state_dir holds
InitAdds ==
    /\ cache = <<>>
    /\ \E c \in EarlierRuns :
          /\ fs = [f \in FileNames |->
                     IF f = JsonlPath /\ c # <<>> THEN Some(Serialize(c)) ELSE None]
    /\ lock = None
    /\ waiters = <<>>
    /\ booted = FALSE
    /\ pc = [t \in {0} \cup Adders |-> "idle"]
    /\ frame = [t \in {0} \cup Adders |-> EmptyFrame]
    /\ req = [t \in {0} \cup Adders |-> EmptyReq]
    /\ runningJob = None
    /\ jobsStarted = 0
    /\ clock = 0
    /\ events = 0
    /\ search = NoSearch

\* start-up: initialize() on the new FolderManager, before the gather
StartUp ==
    /\ ~booted
    /\ InitCall(0)

\* start-up has returned
Started ==
    /\ frame[0].op = "init"
    /\ Return(0)

\* asyncio.gather starts the k-th add_folder(folder, len(chunk_ids), chunk_ids)
AddOnce(t) ==
    /\ booted
    /\ pc[0] = "idle"
    /\ t \in Adders
    /\ pc[t] = "idle"
    /\ \E ids \in ChunkIdLists :
          CallMethod(t, "add", FolderOf(t), Len(ids), ids, "done")
    /\ UNCHANGED << req, events >>
    /\ CallerFrame
    /\ UNCHANGED search

\* the gather of the adds on a started FolderManager
NextAdds ==
    \/ StartUp \/ InitEnter(0) \/ InitLoad(0) \/ InitDone(0) \/ Started
    \/ \E t \in Adders :
          \/ AddOnce(t) \/ AddEnter(t) \/ AddWake(t)
          \/ WriteOpen(t) \/ WriteLine(t) \/ WriteReplace(t) \/ PersistDone(t)

SpecAdds == InitAdds /\ [][NextAdds]_vars

\* the number of records of registry c under path p
CountOf(c, p) == Cardinality({ j \in 1..Len(c) : c[j].folder_path = p })

\* the record the k-th call asked for, with the timestamp it was given
AskedOf(k) ==
    FolderRecord(Resolve(FolderOf(k)), frame[k].n, frame[k].record[1].last_indexed,
                 frame[k].ids)

\* every call made so far has returned (and at least one was made)
AllReturned ==
    /\ \A t \in Adders : pc[t] \in { "idle", "done" }
    /\ \E t \in Adders : pc[t] = "done"

\* C5: once all the concurrent adds for pairwise different folders have
\* returned, the registry in memory and the file each hold exactly one
\* complete record for every one of the folders: nothing lost, no line corrupt.
C5_NoLostAdd ==
    AllReturned
        => /\ fs[JsonlPath] # None
           /\ CompleteFile(fs[JsonlPath][1])
           /\ \A k \in Adders :
                 pc[k] = "done"
                     => LET p == Resolve(FolderOf(k))
                            onDisk == LoadJsonl(fs[JsonlPath][1])
                        IN /\ CountOf(cache, p) = 1
                           /\ DictGet(cache, p) = Some(AskedOf(k))
                           /\ CountOf(onDisk, p) = 1
                           /\ DictGet(onDisk, p) = Some(AskedOf(k))
                           /\ Len(SelectSeq(fs[JsonlPath][1],
                                  LAMBDA l : Lookup(l, "folder_path") = p)) = 1

\* C5 witness: every add has returned, some of them after waiting for the
\* lock, on a registry that had a record of the first folder before
C5_Witness ==
    /\ \A t \in Adders : pc[t] = "done"
    /\ Len(cache) = MaxAdders
    /\ cache[1].folder_path = <<"/", "b">>
    /\ clock > 0

(* ============================ the round trip =========================== *)
(* tests/test_folder_manager.py test_persistence_survives_restart: add on  *)
(* one FolderManager, get on it, then a second FolderManager over the same *)
(* state_dir, initialize, get.  Coroutine 1 adds, 2 gets, 0 starts each    *)
(* manager up and gets from the second; each keeps what it was returned.    *)

\* manager1.add_folder(folder_path, chunk_count, chunk_ids)
RtAdd ==
    /\ booted /\ events = 0
    /\ pc[0] = "idle" /\ pc[1] = "idle"
    /\ \E s \in Spellings, n \in ChunkCounts, ids \in ChunkIdLists :
          CallMethod(1, "add", s, n, ids, "done")
    /\ UNCHANGED << req, events >>
    /\ CallerFrame
    /\ UNCHANGED search

\* manager1.get_folder(p), p spelled in any way that names the folder
RtGet ==
    /\ pc[1] = "done" /\ pc[2] = "idle"
    /\ \E s \in Spellings :
          /\ Resolve(s) = Resolve(frame[1].arg)
          /\ CallMethod(2, "get", s, 0, <<>>, "done")
    /\ UNCHANGED << req, events >>
    /\ CallerFrame
    /\ UNCHANGED search

\* manager2 = FolderManager(state_dir=...): lines 53-56, the files as they are
RtRestart ==
    /\ booted /\ events = 0
    /\ pc[2] = "done"
    /\ events' = 1
    /\ cache' = <<>>
    /\ lock' = None
    /\ waiters' = <<>>
    /\ booted' = FALSE
    /\ UNCHANGED << fs, pc, frame, req, runningJob, jobsStarted, clock >>
    /\ UNCHANGED search

\* manager2.get_folder(p), once manager2.initialize() has returned
RtGetAgain ==
    /\ booted /\ events = 1
    /\ pc[0] = "idle"
    /\ \E s \in Spellings :
          /\ Resolve(s) = Resolve(frame[1].arg)
          /\ CallMethod(0, "get", s, 0, <<>>, "done")
    /\ UNCHANGED << req, events >>
    /\ CallerFrame
    /\ UNCHANGED search

\* the test, step by step
NextRoundTrip ==
    \/ StartUp \/ InitEnter(0) \/ InitLoad(0) \/ InitDone(0) \/ Started
    \/ RtAdd \/ AddEnter(1)
    \/ WriteOpen(1) \/ WriteLine(1) \/ WriteReplace(1) \/ PersistDone(1)
    \/ RtGet \/ GetEnter(2)
    \/ RtRestart
    \/ RtGetAgain \/ GetEnter(0)

SpecRoundTrip == Init /\ [][NextRoundTrip]_vars

\* C10: after add(p, n, ids) has returned, get(p) on the same instance
\* returns a record with chunk_count n and chunk_ids ids, and get(p) on a
\* new instance initialized over the same file returns an equal record
\* (folder_path, chunk_count, chunk_ids and last_indexed).
C10_RoundTrip ==
    /\ pc[2] = "done"
          => /\ frame[2].ret # None
             /\ frame[2].ret[1].folder_path = Resolve(frame[1].arg)
             /\ frame[2].ret[1].chunk_count = frame[1].n
             /\ frame[2].ret[1].chunk_ids = frame[1].ids
    /\ pc[0] = "done" /\ frame[0].op = "get"
          => /\ frame[0].ret # None
             /\ frame[0].ret = frame[2].ret

\* C10 witness: the second instance has answered, the path spelled relative
\* in the get and absolute in the add, the file holding another record too
C10_Witness ==
    /\ pc[0] = "done" /\ frame[0].op = "get"
    /\ frame[0].ret # None
    /\ frame[0].arg # frame[1].arg
    /\ frame[0].ret[1].last_indexed > 0
    /\ Len(cache) = 2

(* ===================== the registry, call by call ====================== *)
(* More properties of SpecRegistry.                                        *)

\* the canonical paths the calls of the model can name
CanonPaths == { Resolve(s) : s \in Spellings }

\* t's step runs the body of method m (it had the lock at once, or was woken)
BodyOf(t, m) ==
    /\ pc[t] \in { m \o "_enter", m \o "_wait" }
    /\ pc'[t] \notin { m \o "_enter", m \o "_wait" }
    /\ Alive

\* C11 (step): the body of add_folder leaves one record under the path, made
\* of the call's arguments alone, and every other path as it was
C11_Supersede ==
    \A t \in Tasks :
        BodyOf(t, "add")
            => LET p == Resolve(frame[t].arg)
               IN /\ CountOf(cache', p) = 1
                  /\ DictGet(cache', p) =
                        Some(FolderRecord(p, frame[t].n,
                                          frame'[t].record[1].last_indexed,
                                          frame[t].ids))
                  /\ \A q \in CanonPaths \ {p} : DictGet(cache', q) = DictGet(cache, q)

\* C11 (step): the record under a path changes only in the body of a
\* mutation, in the assignment of initialize, or with the process
C11_KeptUntilNext ==
    \A p \in CanonPaths :
        DictGet(cache', p) # DictGet(cache, p) /\ Alive
            => \E t \in Tasks :
                  \/ BodyOf(t, "add") /\ Resolve(frame[t].arg) = p
                  \/ BodyOf(t, "rm") /\ Resolve(frame[t].arg) = p
                  \/ BodyOf(t, "clear")
                  \/ pc[t] = "init_loaded" /\ pc'[t] # pc[t]

\* C11: after any sequence of adds the registry holds at most one record per
\* canonical path, carrying exactly the chunk_count and chunk_ids of the
\* latest add for that path and nothing of an earlier one.
C11_LatestAddWins ==
    /\ [](\A p \in CanonPaths : CountOf(cache, p) <= 1)
    /\ [](\A j \in 1..Len(cache) : cache[j].folder_path \in CanonPaths)
    /\ [][C11_Supersede /\ C11_KeptUntilNext]_vars

\* C11 witness: an add has just replaced a record that had other chunk_ids
\* and another chunk_count (the file still holds the earlier one)
C11_Witness ==
    \E t \in Tasks :
        /\ pc[t] = "w_open" /\ frame[t].op = "add"
        /\ fs[JsonlPath] # None
        /\ LET p == Resolve(frame[t].arg)
               old == DictGet(LoadJsonl(fs[JsonlPath][1]), p)
           IN /\ old # None
              /\ old[1].chunk_ids # <<>> /\ frame[t].ids = <<>>
              /\ old[1].chunk_count # frame[t].n
              /\ DictGet(cache, p) = frame[t].record

\* what a new instance would hold after initialize over the file as it is
OnDisk(f) == IF f[JsonlPath] = None THEN <<>> ELSE LoadJsonl(f[JsonlPath][1])

\* C12 (step): the body of remove_folder takes the record under the
\* canonical path, and no other, out of the registry; with no record there
\* it returns None at once and changes nothing
C12_Pop ==
    \A t \in Tasks :
        BodyOf(t, "rm")
            => LET p == Resolve(frame[t].arg)
                   old == DictGet(cache, p)
               IN /\ DictGet(cache', p) = None
                  /\ \A q \in CanonPaths \ {p} : DictGet(cache', q) = DictGet(cache, q)
                  /\ IF old # None
                     THEN frame'[t].record = old /\ pc'[t] = "w_open"
                     ELSE /\ pc'[t] = frame[t].cont
                          /\ frame'[t].ret = None
                          /\ cache' = cache /\ fs' = fs

\* C12 (step): remove_folder returns the record it took; at that moment
\* neither the registry nor the file has a record under the path, and the
\* file has every other record of the registry
C12_Return ==
    \A t \in Tasks :
        pc[t] = "persisted" /\ frame[t].op = "rm" /\ pc'[t] # pc[t] /\ Alive
            => LET p == Resolve(frame[t].arg)
               IN /\ frame'[t].ret = frame[t].record
                  /\ frame[t].record # None
                  /\ frame[t].record[1].folder_path = p
                  /\ DictGet(cache', p) = None
                  /\ DictGet(OnDisk(fs'), p) = None
                  /\ \A q \in CanonPaths \ {p} :
                        DictGet(OnDisk(fs'), q) = DictGet(cache', q)

\* C12: remove(p) returns the record stored under the canonical form of p;
\* once it has returned, get(p) is absent on this instance and on a new one
\* initialized from the file, every other record is unchanged; with no
\* record for p it returns absent.
C12_Remove ==
    [][C12_Pop /\ C12_Return]_vars

\* C12 witness: a remove by a relative spelling has returned the record and
\* the other folder is still registered, in memory and in the file
C12_Witness ==
    \E t \in Tasks :
        /\ pc[t] = "done" /\ frame[t].op = "rm"
        /\ frame[t].ret # None
        /\ frame[t].arg # Resolve(frame[t].arg)
        /\ Len(cache) = 1 /\ OnDisk(fs) = cache

(* ======================= loading a damaged file ======================== *)
(* tests/test_folder_manager.py test_load_jsonl_handles_corrupt_lines: a   *)
(* file of any lines is in state_dir when the FolderManager initializes.    *)

\* bound: the number of lines of the file
MaxLines == 4

\* the lines a file is made of: well-formed ones (two of them for the same
\* path), no JSON, a JSON array, an object without chunk_count, an empty line
LineKinds ==
    { Dump(FolderRecord(<<"/", "w", "a">>, 2, 0, <<"c1", "c2">>)),
      Dump(FolderRecord(<<"/", "w", "a">>, 0, 1, <<>>)),
      Dump(FolderRecord(<<"/", "b">>, 0, 0, <<>>)),
      << <<"{", "invalid json">> >>,
      << <<"[", "1, 2">> >>,
      << <<"folder_path", <<"/", "b">>>> >>,
      <<>> }

\* the files of at most MaxLines lines
AnyFiles == UNION { [1..n -> LineKinds] : n \in 0..MaxLines }

\* a new FolderManager over a state_dir that holds any file, or none
InitLoadAny ==
    /\ cache = <<>>
    /\ \/ fs = [f \in FileNames |-> None]
       \/ \E lines \in AnyFiles :
             fs = [f \in FileNames |-> IF f = JsonlPath THEN Some(lines) ELSE None]
    /\ lock = None
    /\ waiters = <<>>
    /\ booted = FALSE
    /\ pc = [t \in Tasks |-> "idle"]
    /\ frame = [t \in Tasks |-> EmptyFrame]
    /\ req = [t \in Tasks |-> EmptyReq]
    /\ runningJob = None
    /\ jobsStarted = 0
    /\ clock = 0
    /\ events = 0
    /\ search = NoSearch

\* manager.list_folders(), once initialize() has returned
LoadList ==
    /\ booted /\ events = 0
    /\ pc[0] = "idle" /\ pc[1] = "idle"
    /\ events' = 1
    /\ CallMethod(1, "list", <<>>, 0, <<>>, "done")
    /\ UNCHANGED req
    /\ CallerFrame
    /\ UNCHANGED search

\* initialize over the file, then list
NextLoad ==
    \/ StartUp \/ InitEnter(0) \/ InitLoad(0) \/ InitDone(0) \/ Started
    \/ LoadList \/ ListEnter(1)

SpecLoad == InitLoadAny /\ [][NextLoad]_vars

\* the lines of the file as it is
FileLines == IF fs[JsonlPath] = None THEN <<>> ELSE fs[JsonlPath][1]

\* the records of the well-formed lines of the file
GoodRecords ==
    { ParseLine(FileLines[k]) : k \in { j \in 1..Len(FileLines) : WellFormed(FileLines[j]) } }

\* the record of the last well-formed line for each path
LastGoodRecords ==
    { ParseLine(FileLines[k]) :
        k \in { j \in 1..Len(FileLines) :
                  /\ WellFormed(FileLines[j])
                  /\ \A j2 \in (j + 1)..Len(FileLines) :
                        WellFormed(FileLines[j2])
                            => ParseLine(FileLines[j2]).folder_path
                                  # ParseLine(FileLines[j]).folder_path } }

\* the records the registry holds
Held == { cache[j] : j \in 1..Len(cache) }

\* initialize has been called and is over
InitOver == pc[0] = "done" /\ frame[0].op = "init"

\* C13 as stated: for a file of any mix of well-formed, malformed, incomplete
\* and empty lines, initialize completes without error and the registry then
\* holds exactly the records of the well-formed lines.
C13_AllGoodRecords ==
    InitOver => ~frame[0].raised /\ booted /\ Held = GoodRecords

\* C13 amended: initialize completes without error and the registry then
\* holds, for every path a well-formed line names, exactly the record of the
\* last well-formed line for that path, and nothing else; list returns them.
C13_LastGoodRecords ==
    /\ InitOver
          => /\ ~frame[0].raised /\ booted
             /\ Held = LastGoodRecords
             /\ \A p \in CanonPaths : CountOf(cache, p) <= 1
    /\ pc[1] = "done" /\ frame[1].op = "list"
          => { frame[1].ret[j] : j \in 1..Len(frame[1].ret) } = LastGoodRecords

\* C13 witness: initialize is over on a file with a malformed line, an
\* incomplete line and two well-formed lines for one path
C13_Witness ==
    /\ InitOver
    /\ \E i, j, k, l \in 1..Len(FileLines) :
          /\ LineError(FileLines[i]) = "JSONDecodeError"
          /\ LineError(FileLines[j]) = "KeyError"
          /\ k < l /\ WellFormed(FileLines[k]) /\ WellFormed(FileLines[l])
          /\ ParseLine(FileLines[k]).folder_path = ParseLine(FileLines[l]).folder_path
          /\ ParseLine(FileLines[k]) # ParseLine(FileLines[l])

(* ===================== what callers do with records ==================== *)
(* add_folder puts the caller's chunk_ids list into the record (line 103),  *)
(* stores the record (107) and returns it (114); get_folder returns the    *)
(* object of the dict (162), list_folders a new list of the objects of the  *)
(* dict (147).  Coroutine 1 adds, 2 reads, then the caller changes an       *)
(* object it holds, then coroutine 0 reads again or adds another folder.    *)

\* the objects a caller holds after add_folder and a read
Handles == { "chunk_ids passed", "record added", "record read" }

\* the object behind a handle is the one the dict holds (no copy was made)
SharedWithCache(h) ==
    CASE h = "chunk_ids passed" -> TRUE
      [] h = "record added" -> TRUE
      [] h = "record read" -> TRUE

\* the record after the caller's change: one more id in its chunk_ids list
Changed(r) == [r EXCEPT !.chunk_ids = Append(@, "c9")]

\* manager.add_folder(folder_path, chunk_count, chunk_ids)
AliasAdd ==
    /\ booted /\ events = 0
    /\ pc[0] = "idle" /\ pc[1] = "idle"
    /\ \E s \in Spellings, ids \in ChunkIdLists :
          CallMethod(1, "add", s, Len(ids), ids, "done")
    /\ UNCHANGED << req, events >>
    /\ CallerFrame
    /\ UNCHANGED search

\* manager.get_folder(p) or manager.list_folders()
AliasRead ==
    /\ events = 0
    /\ pc[1] = "done" /\ pc[2] = "idle"
    /\ \/ CallMethod(2, "get", Resolve(frame[1].arg), 0, <<>>, "done")
       \/ CallMethod(2, "list", <<>>, 0, <<>>, "done")
    /\ UNCHANGED << req, events >>
    /\ CallerFrame
    /\ UNCHANGED search

\* the caller appends to the list it passed, or to the chunk_ids of a record
\* it was returned
AliasChange ==
    /\ events = 0
    /\ pc[2] = "done"
    /\ events' = 1
    /\ \E h \in Handles :
          LET r == DictGet(cache, Resolve(frame[1].arg))[1]
          IN cache' = IF SharedWithCache(h) THEN DictSet(cache, Changed(r)) ELSE cache
    /\ UNCHANGED << fs, lock, waiters, booted, pc, frame, req, runningJob,
                    jobsStarted, clock >>
    /\ UNCHANGED search

\* a later get or list, or the add of another folder (the next write)
AliasLater ==
    /\ booted /\ events = 1
    /\ pc[0] = "idle"
    /\ \/ CallMethod(0, "get", Resolve(frame[1].arg), 0, <<>>, "done")
       \/ CallMethod(0, "list", <<>>, 0, <<>>, "done")
       \/ \E s \in Spellings :
             /\ Resolve(s) # Resolve(frame[1].arg)
             /\ CallMethod(0, "add", s, 0, <<>>, "done")
    /\ UNCHANGED << req, events >>
    /\ CallerFrame
    /\ UNCHANGED search

\* the calls in their order
NextAlias ==
    \/ StartUp \/ InitEnter(0) \/ InitLoad(0) \/ InitDone(0) \/ Started
    \/ AliasAdd \/ AliasRead \/ AliasChange \/ AliasLater
    \/ \E t \in Tasks :
          \/ AddEnter(t)
          \/ WriteOpen(t) \/ WriteLine(t) \/ WriteReplace(t) \/ PersistDone(t)
          \/ GetEnter(t) \/ ListEnter(t)

SpecAlias == Init /\ [][NextAlias]_vars

\* C14: the records callers get are copies: after a caller has changed a
\* record it was returned, or the chunk_ids list it passed to add, a later
\* get or list still returns the record as it was added, and the next
\* persistence write stores it as it was added.
C14_CallersHoldCopies ==
    LET p == Resolve(frame[1].arg)
        added == frame[1].record
    IN pc[0] = "done" /\ events = 1
          => /\ frame[0].op = "get" => frame[0].ret = added
             /\ frame[0].op = "list"
                   => \E j \in 1..Len(frame[0].ret) : frame[0].ret[j] = added[1]
             /\ frame[0].op = "add" => DictGet(OnDisk(fs), p) = added

(* ================= chunk_count and chunk_ids (SpecRegistry) ============ *)

\* every record of registry c has as many chunk_ids as its chunk_count says
CountsAgree(c) == \A j \in 1..Len(c) : Len(c[j].chunk_ids) = c[j].chunk_count

\* the records a write has stored: the lines of the temporary file and of
\* the primary file
Stored(f) ==
    (IF f[TempPath] = None THEN <<>> ELSE LoadJsonl(f[TempPath][1]))
        \o OnDisk(f)

\* C15 as stated: every record a persistence write stores has a chunk_ids
\* list as long as its chunk_count, for every sequence of add, remove and
\* initialize calls.
C15_StoredCountsAgree ==
    CountsAgree(Stored(fs))

\* the step is no add_folder body with a chunk_count other than len(chunk_ids)
C15_AddsAgree ==
    \A t \in Tasks : BodyOf(t, "add") => frame[t].n = Len(frame[t].ids)

\* C15 amended: add stores chunk_count and chunk_ids as given, and no call
\* changes them afterwards: as long as every add is given chunk_count =
\* len(chunk_ids), every record in the registry and every record a
\* persistence write stores has a chunk_ids list as long as its chunk_count.
C15_CountsAgreeIfGiven ==
    [][CountsAgree(cache) /\ CountsAgree(Stored(fs)) /\ C15_AddsAgree
           => CountsAgree(cache') /\ CountsAgree(Stored(fs'))]_vars

\* C15 witness: a write has stored the record of an add that replaced a
\* record, both with as many chunk_ids as their chunk_count
C15_Witness ==
    \E t \in Tasks :
        /\ pc[t] = "persisted" /\ frame[t].op = "add"
        /\ frame[t].n = 2 /\ Len(frame[t].ids) = 2
        /\ frame[t].record[1].last_indexed > 0
        /\ DictGet(OnDisk(fs), Resolve(frame[t].arg)) = frame[t].record
        /\ CountsAgree(cache) /\ CountsAgree(Stored(fs))

(* ===================== canonical paths (SpecRegistry) ================== *)

\* a path in canonical absolute form: from the root, no "." and no ".."
IsCanonical(p) ==
    /\ p # <<>> /\ Head(p) = "/"
    /\ \A k \in 1..Len(p) : p[k] \notin { ".", ".." }

\* the folder each spelling of the model names, with /w the working directory
CanonOf(s) ==
    CASE s = <<"/", "w", "a">> -> <<"/", "w", "a">>
      [] s = <<".", "x", "..", "a">> -> <<"/", "w", "a">>
      [] s = <<"/", "b">> -> <<"/", "b">>

C17_AddReaches ==
    \A t \in Tasks :
        BodyOf(t, "add")
            => LET p == CanonOf(frame[t].arg)
               IN /\ CountOf(cache', p) = 1
                  /\ DictGet(cache', p) = frame'[t].record
                  /\ frame'[t].record[1].folder_path = p
                  /\ Len(cache') = Len(cache) + (IF DictGet(cache, p) = None THEN 1 ELSE 0)

\* C17 (step): get_folder and remove_folder by any spelling reach the record
\* under the canonical path of the folder
C17_GetRemoveReach ==
    \A t \in Tasks :
        LET p == CanonOf(frame[t].arg)
        IN /\ BodyOf(t, "get") => frame'[t].ret = DictGet(cache, p)
           /\ BodyOf(t, "rm")
                 => /\ DictGet(cache', p) = None
                    /\ DictGet(cache, p) # None
                          => frame'[t].record = DictGet(cache, p)
                    /\ DictGet(cache, p) = None => frame'[t].ret = None

\* C17: for spellings s1 and s2 of one canonical path, add(s1, ...) followed
\* by get(s2) or remove(s2) reaches the same single record, whose
\* folder_path is the canonical path.
C17_SpellingsAgree ==
    [][C17_AddReaches /\ C17_GetRemoveReach]_vars

\* C17 witness: a record added by the absolute spelling and returned to a
\* get by the relative one
C17_Witness ==
    \E t, u \in Tasks :
        /\ pc[t] = "done" /\ frame[t].op = "add"
        /\ frame[t].arg = <<"/", "w", "a">>
        /\ pc[u] = "done" /\ frame[u].op = "get"
        /\ frame[u].arg = <<".", "x", "..", "a">>
        /\ frame[u].ret = frame[t].ret
        /\ frame[u].ret[1].last_indexed > 0

(* ------------------------- the reranking stage -------------------------- *)

\* the FolderManager and the deletion endpoint take no part in a query
registry == << cache, fs, lock, waiters, booted, pc, frame, req, runningJob,
              jobsStarted, clock, events >>

MaxResults == 3

Min(a, b) == IF a <= b THEN a ELSE b

\* results[:top_k]
Take(s, k) == SubSeq(s, 1, Min(k, Len(s)))

\* bm25_score of a stage-one result: unset, or set as the tests set it
\* (in tenths)
Bm25Scores == { None, Some(8) }

\* a stage-one result as the sample_results fixture builds it: Document i,
\* vector_score 1.0 - 0.1 i (in tenths), no rerank_score, no original_rank
QueryResult(i, bm25) ==
    [ text |-> <<"Document", i>>, vector_score |-> 10 - i, bm25_score |-> bm25,
      rerank_score |-> None, original_rank |-> None ]

\* the candidate lists handed to the reranking stage
SampleResults ==
    UNION { { [i \in 1..n |-> QueryResult(i - 1, bm[i])] :
                bm \in [1..n -> Bm25Scores] } : n \in 0..MaxResults }

\* _parse_score clamps to 0..10, and a failed request scores 0.0
\* (in hundredths)
OllamaScores == { 0, 500, 1000 }

\* sorted(scores, key=lambda x: x[1], reverse=True) is stable: documents of
\* equal score keep their order
RECURSIVE InsertByScore(_, _)
InsertByScore(sorted, p) ==
    IF sorted = <<>> THEN <<p>>
    ELSE IF Head(sorted)[2] >= p[2]
         THEN <<Head(sorted)>> \o InsertByScore(Tail(sorted), p)
         ELSE <<p>> \o sorted

RECURSIVE SortedScores(_)
SortedScores(scores) ==
    IF scores = <<>> THEN <<>>
    ELSE InsertByScore(SortedScores(SubSeq(scores, 1, Len(scores) - 1)),
                       scores[Len(scores)])

\* OllamaRerankerProvider.rerank: one (index, score) pair per document,
\* sorted by score descending, the first top_k of them
OllamaRerank(scoring, top_k) ==
    IF scoring = <<>> THEN <<>>
    ELSE Take(SortedScores([i \in 1..Len(scoring) |-> <<i - 1, scoring[i]>>]),
              top_k)

\* the scores the mocked providers of the tests return, best first
\* (0.95, 0.85, 0.75 in hundredths)
MockScores == <<95, 85, 75, 65>>

\* rerank = AsyncMock(return_value=[(5, 0.95), (2, 0.85), (0, 0.75)]): any
\* list of pairs over distinct documents, in any order of the documents
MockedPairs(n) ==
    { [i \in 1..Len(ix) |-> <<ix[i], MockScores[i]>>] :
        ix \in { s \in UNION { [1..k -> 0..(n - 1)] : k \in 0..n } :
                   \A i, j \in 1..Len(s) : i # j => s[i] # s[j] } }

\* the fallback without the cut to top_k
FallbackAll(results, top_k) == results

\* the fallback: the first top_k entries of results in their original
\* order, untouched
Fallback(results, top_k) == Take(results, top_k)

\* the candidates in their own order, only marked as reranked
RerankedInPlace(results, pairs, top_k) ==
    [i \in 1..Min(Len(pairs), top_k) |->
        [results[i] EXCEPT !.rerank_score = Some(pairs[i][2]),
                           !.original_rank = Some(i)]]

\* on success: one output per returned pair, in the provider's order,
\* truncated to top_k; text and the stage-one scores of
\* results[original_index], rerank_score the provider's score,
\* original_rank = original_index + 1
Reranked(results, pairs, top_k) ==
    [i \in 1..Min(Len(pairs), top_k) |->
        [results[pairs[i][1] + 1] EXCEPT !.rerank_score = Some(pairs[i][2]),
                                        !.original_rank = Some(pairs[i][1] + 1)]]

\* rerank(...) returns `out`; `how` records the path taken
RerankReturn(out, how) ==
    search' = [search EXCEPT !.at = "done", !.out = out, !.how = how]

\* await query_service._rerank_results(sample_results, "test query", top_k);
\* empty results come back at once, without a provider
RerankCall ==
    /\ search = NoSearch
    /\ \E results \in SampleResults, top_k \in 1..MaxResults :
          search' = [ op |-> "rerank", results |-> results, top_k |-> top_k,
                      at |-> IF results = <<>> THEN "done" ELSE "acquire",
                      called |-> FALSE, pairs |-> <<>>, out |-> <<>>,
                      how |-> IF results = <<>> THEN "empty" ELSE "",
                      raised |-> FALSE ]
    /\ UNCHANGED registry

\* ProviderRegistry.get_reranker_provider(...): a provider, or an exception
\* (side_effect = Exception("Provider not found"))
AcquireProvider ==
    /\ search.op = "rerank" /\ search.at = "acquire"
    /\ \/ search' = [search EXCEPT !.at = "available"]
       \/ RerankReturn(Fallback(search.results, search.top_k), "acquire_failed")
    /\ UNCHANGED registry

\* reranker.is_available()
CheckAvailable ==
    /\ search.op = "rerank" /\ search.at = "available"
    /\ \E is_available \in BOOLEAN :
          IF is_available
          THEN search' = [search EXCEPT !.at = "rerank"]
          ELSE RerankReturn(Fallback(search.results, search.top_k), "unavailable")
    /\ UNCHANGED registry

\* await reranker.rerank(query, documents, top_k) by the Ollama provider:
\* every document scored, then sorted and cut
ProviderOllama ==
    /\ search.op = "rerank" /\ search.at = "rerank"
    /\ \E scoring \in [1..Len(search.results) -> OllamaScores] :
          search' = [search EXCEPT !.at = "build", !.called = TRUE,
                        !.pairs = OllamaRerank(scoring, search.top_k)]
    /\ UNCHANGED registry

\* await reranker.rerank(...) by a mocked provider: the pairs it was given,
\* or an exception (side_effect = Exception("Reranking failed"))
ProviderMock ==
    /\ search.op = "rerank" /\ search.at = "rerank"
    /\ \/ \E pairs \in MockedPairs(Len(search.results)) :
             search' = [search EXCEPT !.at = "build", !.called = TRUE,
                           !.pairs = pairs]
       \/ RerankReturn(Fallback(search.results, search.top_k), "rerank_raised")
    /\ UNCHANGED registry

\* the output built from the provider's pairs
BuildReranked ==
    /\ search.op = "rerank" /\ search.at = "build"
    /\ RerankReturn(Reranked(search.results, search.pairs, search.top_k),
                    "reranked")
    /\ UNCHANGED registry

NextRerank ==
    \/ RerankCall \/ AcquireProvider \/ CheckAvailable
    \/ ProviderOllama \/ ProviderMock \/ BuildReranked

SpecRerank == Init /\ [][NextRerank]_vars

(* ------------------- claims on the reranking stage ---------------------- *)

\* rerank(...) has returned
Reranking(how) ==
    search.op = "rerank" /\ search.at = "done" /\ search.how = how

\* rerank(...) has returned by the fallback
FellBack ==
    \E how \in {"acquire_failed", "unavailable", "rerank_raised"} : Reranking(how)

\* C18: when acquiring the reranker provider fails, or the provider reports
\* itself unavailable, or its rerank call raises, rerank(results, query,
\* top_k) raises nothing and returns exactly results[0:top_k], in the
\* original order, every field unchanged and no rerank_score set.
C18_FallbackUntouched ==
    FellBack
       => /\ ~search.raised
          /\ Len(search.out) = Min(search.top_k, Len(search.results))
          /\ \A i \in 1..Len(search.out) :
                /\ search.out[i] = search.results[i]
                /\ search.out[i].rerank_score = None
                /\ search.out[i].original_rank = None

\* C18 witness: the provider's rerank call raised over three candidates with
\* top_k = 2, and the first two came back
C18_Witness ==
    /\ Reranking("rerank_raised")
    /\ Len(search.results) = 3 /\ search.top_k = 2
    /\ Len(search.out) = 2

\* C19: after a successful rerank the i-th output is built from
\* results[idx_i] for the i-th (idx_i, score_i) pair of the provider, in the
\* provider's order and truncated to top_k: it keeps that entry's text,
\* vector_score and bm25_score, and has rerank_score = score_i and
\* original_rank = idx_i + 1.
C19_BuiltFromPairs ==
    Reranking("reranked")
       => /\ Len(search.out) = Min(Len(search.pairs), search.top_k)
          /\ \A i \in 1..Len(search.out) :
                LET idx == search.pairs[i][1]
                    score == search.pairs[i][2]
                    original == search.results[idx + 1]
                IN /\ search.out[i].text = original.text
                   /\ search.out[i].vector_score = original.vector_score
                   /\ search.out[i].bm25_score = original.bm25_score
                   /\ search.out[i].rerank_score = Some(score)
                   /\ search.out[i].original_rank = Some(idx + 1)

\* C19 witness: the provider ranked the third candidate first and returned
\* three pairs for top_k = 2; the first output is the third candidate with
\* its bm25_score, the second the first candidate
C19_Witness ==
    /\ Reranking("reranked")
    /\ Len(search.pairs) = 3 /\ search.top_k = 2
    /\ search.pairs[1][1] = 2 /\ search.pairs[2][1] = 0
    /\ search.out[1].text = <<"Document", 2>>
    /\ search.out[1].bm25_score = Some(8)
    /\ search.out[1].original_rank = Some(3)
    /\ search.out[2].text = <<"Document", 0>>

(* ----------------------- reciprocal rank fusion -------------------------- *)

\* floats are modelled as exact fractions <<numerator, denominator>> in
\* lowest terms, denominator positive
Abs(n) == IF n < 0 THEN -n ELSE n

RECURSIVE Gcd(_, _)
Gcd(a, b) == IF b = 0 THEN a ELSE Gcd(b, a % b)

Lcm(a, b) == (a \div Gcd(a, b)) * b

Frac(n, d) == LET g == Gcd(Abs(n), d) IN <<n \div g, d \div g>>

Zero == Frac(0, 1)
One == Frac(1, 1)

\* x + y
FracAdd(x, y) ==
    LET l == Lcm(x[2], y[2])
    IN Frac(x[1] * (l \div x[2]) + y[1] * (l \div y[2]), l)

\* x >= y
FracGeq(x, y) ==
    LET l == Lcm(x[2], y[2])
    IN x[1] * (l \div x[2]) >= y[1] * (l \div y[2])

\* x / y, for y > 0
FracDiv(x, y) ==
    LET l == Lcm(x[2], y[2])
    IN Frac(x[1] * (l \div x[2]), y[1] * (l \div y[2]))

\* weight / (rank + 1 + rrf_k): ranks counted from one
ReciprocalOneBased(weight, rank, rrf_k) ==
    Frac(weight[1], weight[2] * (rank + 1 + rrf_k))

\* weight / (rank + rrf_k), for rank + rrf_k > 0
Reciprocal(weight, rank, rrf_k) == Frac(weight[1], weight[2] * (rank + rrf_k))

MaxRank == 2

ChunkIds == {"A", "B", "C"}

\* vector_weight and keyword_weight: 0.0, 0.5 (the default), 1.0
Weights == { Frac(0, 1), Frac(1, 2), Frac(1, 1) }

\* rrf_k: 60 is the default
RrfKs == {0, 1, 60}

\* a result of one backend search: its text tells the list and the place
SearchResult(list, rank, chunk_id) ==
    [ chunk_id |-> chunk_id, text |-> <<list, rank, chunk_id>>, score |-> One ]

\* the ranked lists one backend search can return, rank 0 first
ResultLists(list) ==
    UNION { { [i \in 1..n |-> SearchResult(list, i - 1, ids[i])] :
                ids \in [1..n -> ChunkIds] } : n \in 0..MaxRank }

\* rrf_scores.get(chunk_id, 0.0); the dict is a sequence of
\* <<chunk_id, score>> in insertion order
ScoreOf(rrf_scores, chunk_id) ==
    IF \E i \in 1..Len(rrf_scores) : rrf_scores[i][1] = chunk_id
    THEN rrf_scores[CHOOSE i \in 1..Len(rrf_scores) :
                        rrf_scores[i][1] = chunk_id][2]
    ELSE Zero

\* rrf_scores[chunk_id] = score
SetScore(rrf_scores, chunk_id, score) ==
    IF \E i \in 1..Len(rrf_scores) : rrf_scores[i][1] = chunk_id
    THEN [i \in 1..Len(rrf_scores) |->
            IF rrf_scores[i][1] = chunk_id THEN <<chunk_id, score>>
            ELSE rrf_scores[i]]
    ELSE Append(rrf_scores, <<chunk_id, score>>)

\* for rank, result in enumerate(results):
\*     rrf_scores[id] = rrf_scores.get(id, 0.0) + weight / (rank + rrf_k)
\* from place `rank` of the list on
RECURSIVE Accumulate(_, _, _, _, _)
Accumulate(rrf_scores, results, rank, weight, rrf_k) ==
    IF rank >= Len(results) THEN rrf_scores
    ELSE LET chunk_id == results[rank + 1].chunk_id
         IN Accumulate(SetScore(rrf_scores, chunk_id,
                                FracAdd(ScoreOf(rrf_scores, chunk_id),
                                        Reciprocal(weight, rank, rrf_k))),
                       results, rank + 1, weight, rrf_k)

\* rrf_scores after the vector loop alone
RrfScoresVectorOnly(vector_results, keyword_results, vector_weight, keyword_weight, rrf_k) ==
    Accumulate(<<>>, vector_results, 0, vector_weight, rrf_k)

\* rrf_scores after both loops
RrfScores(vector_results, keyword_results, vector_weight, keyword_weight, rrf_k) ==
    Accumulate(Accumulate(<<>>, vector_results, 0, vector_weight, rrf_k),
               keyword_results, 0, keyword_weight, rrf_k)

\* a division by rank + rrf_k = 0 raises ZeroDivisionError
DividesByZero(vector_results, keyword_results, rrf_k) ==
    \E rank \in 0..(Len(vector_results) - 1) \cup 0..(Len(keyword_results) - 1) :
        rank + rrf_k = 0

\* result_map[chunk_id]: the vector loop assigns at every place, the
\* keyword loop only when the chunk is not yet there
ResultMap(vector_results, keyword_results, chunk_id) ==
    LET inV == { i \in 1..Len(vector_results) :
                    vector_results[i].chunk_id = chunk_id }
        inK == { i \in 1..Len(keyword_results) :
                    keyword_results[i].chunk_id = chunk_id }
    IN IF inV # {}
       THEN vector_results[CHOOSE i \in inV : \A j \in inV : j <= i]
       ELSE keyword_results[CHOOSE i \in inK : \A j \in inK : i <= j]

\* a sort that puts a chunk before the chunks of equal score already placed
RECURSIVE InsertTiesFirst(_, _)
InsertTiesFirst(sorted, p) ==
    IF sorted = <<>> THEN <<p>>
    ELSE IF FracGeq(p[2], Head(sorted)[2])
         THEN <<p>> \o sorted
         ELSE <<Head(sorted)>> \o InsertTiesFirst(Tail(sorted), p)

\* sorted(rrf_scores.keys(), key=lambda id: rrf_scores[id], reverse=True):
\* stable, so chunks of equal score keep the order of the dict
RECURSIVE InsertByRrf(_, _)
InsertByRrf(sorted, p) ==
    IF sorted = <<>> THEN <<p>>
    ELSE IF FracGeq(Head(sorted)[2], p[2])
         THEN <<Head(sorted)>> \o InsertByRrf(Tail(sorted), p)
         ELSE <<p>> \o sorted

RECURSIVE SortedIds(_)
SortedIds(rrf_scores) ==
    IF rrf_scores = <<>> THEN <<>>
    ELSE InsertByRrf(SortedIds(SubSeq(rrf_scores, 1, Len(rrf_scores) - 1)),
                     rrf_scores[Len(rrf_scores)])

\* max(rrf_scores.values())
MaxScore(rrf_scores) ==
    rrf_scores[CHOOSE i \in 1..Len(rrf_scores) :
                  \A j \in 1..Len(rrf_scores) :
                      FracGeq(rrf_scores[i][2], rrf_scores[j][2])][2]

\* no normalisation: every score divided by 1.0
MaxRrfUnit(rrf_scores) == One

\* max(rrf_scores.values()) or 1.0
MaxRrf(rrf_scores) ==
    IF MaxScore(rrf_scores) = Zero THEN One ELSE MaxScore(rrf_scores)

\* _rrf_fuse, when no division raises
RrfFuse(vector_results, keyword_results, top_k, vector_weight, keyword_weight, rrf_k) ==
    LET rrf_scores == RrfScores(vector_results, keyword_results,
                                vector_weight, keyword_weight, rrf_k)
        sorted_ids == Take(SortedIds(rrf_scores), top_k)
    IN IF rrf_scores = <<>> THEN <<>>
       ELSE [i \in 1..Len(sorted_ids) |->
               [ chunk_id |-> sorted_ids[i][1],
                 text |-> ResultMap(vector_results, keyword_results,
                                    sorted_ids[i][1]).text,
                 score |-> FracDiv(sorted_ids[i][2], MaxRrf(rrf_scores)) ]]

\* the arguments of one call of _rrf_fuse
FuseCalls ==
    [ op : {"fuse"}, at : {"called"},
      vector_results : ResultLists("vector"),
      keyword_results : ResultLists("keyword"),
      top_k : 1..(MaxRank + 1),
      vector_weight : Weights, keyword_weight : Weights, rrf_k : RrfKs,
      rrf_scores : {<<>>}, out : {<<>>}, raised : {""} ]

InitFuse ==
    /\ search \in FuseCalls
    /\ cache = <<>>
    /\ fs = [f \in FileNames |-> None]
    /\ lock = None
    /\ waiters = <<>>
    /\ booted = FALSE
    /\ pc = [t \in Tasks |-> "idle"]
    /\ frame = [t \in Tasks |-> EmptyFrame]
    /\ req = [t \in Tasks |-> EmptyReq]
    /\ runningJob = None
    /\ jobsStarted = 0
    /\ clock = 0
    /\ events = 0

\* _rrf_fuse(...) raises in one of its loops
FuseRaises ==
    /\ search.op = "fuse" /\ search.at = "called"
    /\ DividesByZero(search.vector_results, search.keyword_results, search.rrf_k)
    /\ search' = [search EXCEPT !.at = "done", !.raised = "ZeroDivisionError"]
    /\ UNCHANGED registry

\* _rrf_fuse(...) returns
FuseReturns ==
    /\ search.op = "fuse" /\ search.at = "called"
    /\ ~DividesByZero(search.vector_results, search.keyword_results, search.rrf_k)
    /\ search' = [search EXCEPT
          !.at = "done",
          !.rrf_scores = RrfScores(search.vector_results, search.keyword_results,
                                   search.vector_weight, search.keyword_weight,
                                   search.rrf_k),
          !.out = RrfFuse(search.vector_results, search.keyword_results,
                          search.top_k, search.vector_weight,
                          search.keyword_weight, search.rrf_k)]
    /\ UNCHANGED registry

NextFuse == FuseRaises \/ FuseReturns

SpecFuse == InitFuse /\ [][NextFuse]_vars

(* ------------------------- claims on the fusion -------------------------- *)

\* _rrf_fuse is over, by a return or by an exception
Fused == search.op = "fuse" /\ search.at = "done"

\* a common denominator of every weight / (rank + rrf_k) of the call
RECURSIVE RankProduct(_, _)
RankProduct(rrf_k, n) ==
    IF n = 0 THEN 1 ELSE (n - 1 + rrf_k) * RankProduct(rrf_k, n - 1)

Denominator ==
    search.vector_weight[2] * search.keyword_weight[2]
       * RankProduct(search.rrf_k,
                     IF Len(search.vector_results) >= Len(search.keyword_results)
                     THEN Len(search.vector_results)
                     ELSE Len(search.keyword_results))

\* Denominator times the sum of weight / (rank + rrf_k) over the ranks of
\* chunk_id among the first n places of results
RECURSIVE ScaledSum(_, _, _, _)
ScaledSum(results, weight, chunk_id, n) ==
    IF n = 0 THEN 0
    ELSE ScaledSum(results, weight, chunk_id, n - 1)
           + IF results[n].chunk_id = chunk_id
             THEN weight[1] * (Denominator \div (weight[2] * (n - 1 + search.rrf_k)))
             ELSE 0

\* Denominator times the sum the claim gives for chunk_id
ScaledExpected(chunk_id) ==
    ScaledSum(search.vector_results, search.vector_weight, chunk_id,
              Len(search.vector_results))
      + ScaledSum(search.keyword_results, search.keyword_weight, chunk_id,
                  Len(search.keyword_results))

InputIds ==
    { search.vector_results[i].chunk_id : i \in 1..Len(search.vector_results) }
       \cup { search.keyword_results[i].chunk_id : i \in 1..Len(search.keyword_results) }

\* the fraction x equals scaled / Denominator
IsScaled(x, scaled) ==
    Denominator % x[2] = 0 /\ x[1] * (Denominator \div x[2]) = scaled

\* the accumulated scores are the sums of the claim, chunk by chunk
AccumulatedAsSummed ==
    /\ { search.rrf_scores[i][1] : i \in 1..Len(search.rrf_scores) } = InputIds
    /\ \A chunk_id \in InputIds :
          IsScaled(ScoreOf(search.rrf_scores, chunk_id), ScaledExpected(chunk_id))

\* Denominator times the maximum of the sums
ScaledMax ==
    CHOOSE m \in { ScaledExpected(c) : c \in InputIds } :
        \A c \in InputIds : ScaledExpected(c) <= m

\* the fraction x equals a / m, and m is not zero
IsQuotient(x, a, m) ==
    /\ m # 0
    /\ m % x[2] = 0
    /\ a % (m \div x[2]) = 0
    /\ a \div (m \div x[2]) = x[1]

\* every reported score is the accumulated score over the maximum
ReportedOverMax ==
    \A i \in 1..Len(search.out) :
        IsQuotient(search.out[i].score, ScaledExpected(search.out[i].chunk_id),
                   ScaledMax)

\* C20 as stated: for all input lists, weights and rrf_k the accumulated
\* score of a chunk is the sum of vector_weight / (r + rrf_k) over its ranks
\* in vector_results plus keyword_weight / (r + rrf_k) over its ranks in
\* keyword_results, and every reported score is that sum divided by the
\* maximum accumulated score.
C20_ScoresForAll ==
    Fused => /\ search.raised = ""
             /\ AccumulatedAsSummed
             /\ ReportedOverMax

\* C20, amended: for rrf_k >= 1 and weights >= 0 the accumulated scores are
\* those sums; every reported score is the accumulated score divided by the
\* maximum accumulated score when that maximum is not zero, and is the
\* accumulated score itself (zero) when it is.
C20_ScoresWhereDefined ==
    Fused /\ search.rrf_k >= 1
       => /\ search.raised = ""
          /\ AccumulatedAsSummed
          /\ IF InputIds # {} /\ ScaledMax = 0
             THEN \A i \in 1..Len(search.out) : search.out[i].score = Zero
             ELSE ReportedOverMax

\* C20 witness: vector_results [A, B], keyword_results [B, C], rrf_k 60 and
\* both weights 0.5: B, found at rank 1 and at rank 0, accumulates
\* 0.5/61 + 0.5/60 and is reported as 1; A is reported as 61/121
C20_Witness ==
    /\ Fused /\ search.rrf_k = 60 /\ search.top_k = 3
    /\ search.vector_weight = Frac(1, 2) /\ search.keyword_weight = Frac(1, 2)
    /\ Len(search.vector_results) = 2 /\ Len(search.keyword_results) = 2
    /\ search.vector_results[1].chunk_id = "A"
    /\ search.vector_results[2].chunk_id = "B"
    /\ search.keyword_results[1].chunk_id = "B"
    /\ search.keyword_results[2].chunk_id = "C"
    /\ ScoreOf(search.rrf_scores, "B") = Frac(121, 7320)
    /\ search.out[1].chunk_id = "B" /\ search.out[1].score = One
    /\ search.out[2].chunk_id = "A" /\ search.out[2].score = Frac(61, 121)

\* the concrete call: vector_results = [A, B], keyword_results = [B, C],
\* rrf_k = 60, both weights 0.5, top_k = 3, and _rrf_fuse has returned
FusedABC ==
    /\ Fused /\ search.raised = ""
    /\ search.rrf_k = 60 /\ search.top_k = 3
    /\ search.vector_weight = <<1, 2>> /\ search.keyword_weight = <<1, 2>>
    /\ [i \in 1..Len(search.vector_results) |->
           search.vector_results[i].chunk_id] = <<"A", "B">>
    /\ [i \in 1..Len(search.keyword_results) |->
           search.keyword_results[i].chunk_id] = <<"B", "C">>

\* the chunk ids of the output, in order
OutputIds == [i \in 1..Len(search.out) |-> search.out[i].chunk_id]

\* C21 as stated: for vector_results = [A, B], keyword_results = [B, C],
\* rrf_k = 60 and both weights 0.5 the raw scores are A = 0.5/60,
\* B = 0.5/60 + 0.5/60 and C = 0.5/61, B is reported as 1.0 and the output
\* order is [B, A, C].
C21_ScenarioAsStated ==
    FusedABC
       => /\ ScoreOf(search.rrf_scores, "A") = <<1, 120>>
          /\ ScoreOf(search.rrf_scores, "B") = <<1, 60>>
          /\ ScoreOf(search.rrf_scores, "C") = <<1, 122>>
          /\ OutputIds = <<"B", "A", "C">>
          /\ search.out[1].score = <<1, 1>>

\* C21, amended: in that call the raw scores are A = 0.5/60,
\* B = 0.5/61 + 0.5/60 (B is at rank 1 of vector_results and at rank 0 of
\* keyword_results) and C = 0.5/61; B is reported as 1.0 and the output
\* order is [B, A, C].
C21_Scenario ==
    FusedABC
       => /\ ScoreOf(search.rrf_scores, "A") = <<1, 120>>
          /\ ScoreOf(search.rrf_scores, "B") = <<121, 7320>>
          /\ ScoreOf(search.rrf_scores, "C") = <<1, 122>>
          /\ OutputIds = <<"B", "A", "C">>
          /\ search.out[1].score = <<1, 1>>

\* C21 witness: the call has returned its three chunks
C21_Witness == FusedABC /\ Len(search.out) = 3

\* _rrf_fuse has returned a non-empty list
FusedSome == Fused /\ search.raised = "" /\ search.out # <<>>

\* 0.0 < score <= 1.0 for every result, and exactly 1.0 for the first
ScoresBounded ==
    /\ \A i \in 1..Len(search.out) :
          /\ 0 < search.out[i].score[1]
          /\ search.out[i].score[1] <= search.out[i].score[2]
    /\ search.out[1].score = <<1, 1>>

\* C22 as stated: for every non-empty output of fuse every result's score
\* satisfies 0.0 < score <= 1.0 and the first result's score is exactly 1.0,
\* for all input lists, all weights and all top_k >= 1.
C22_BoundsForAllWeights == FusedSome => ScoresBounded

\* C22, amended: the same for all input lists, all top_k >= 1 and all
\* weights greater than zero.
C22_BoundsForPositiveWeights ==
    FusedSome /\ search.vector_weight[1] > 0 /\ search.keyword_weight[1] > 0
       => ScoresBounded

\* C22 witness: both weights positive, three chunks fused, the last one
\* reported below 1.0
C22_Witness ==
    /\ FusedSome
    /\ search.vector_weight[1] > 0 /\ search.keyword_weight[1] > 0
    /\ Len(search.out) = 3
    /\ search.out[3].score[1] < search.out[3].score[2]

\* the chunk ids of one input list
IdsOf(results) == { results[i].chunk_id : i \in 1..Len(results) }

\* C23: the output of fuse holds each chunk id at most once, has
\* min(top_k, size of the union of the input chunk-id sets) entries and only
\* chunk ids of that union; when top_k is at least the size of the union, a
\* chunk present only in keyword_results is in the output.
C23_UnionCutToTopK ==
    Fused /\ search.raised = ""
       => /\ \A i, j \in 1..Len(search.out) :
                i # j => search.out[i].chunk_id # search.out[j].chunk_id
          /\ Len(search.out) = Min(search.top_k, Cardinality(InputIds))
          /\ \A i \in 1..Len(search.out) : search.out[i].chunk_id \in InputIds
          /\ search.top_k >= Cardinality(InputIds)
                => \A c \in IdsOf(search.keyword_results) \ IdsOf(search.vector_results) :
                      \E i \in 1..Len(search.out) : search.out[i].chunk_id = c

\* C23 witness: C is only in keyword_results, top_k is the size of the
\* union, and C is in the output; A is twice in vector_results and once in
\* the output
C23_Witness ==
    /\ Fused /\ search.raised = ""
    /\ IdsOf(search.vector_results) = {"A"} /\ Len(search.vector_results) = 2
    /\ IdsOf(search.keyword_results) = {"B", "C"}
    /\ search.top_k = 3
    /\ \E i \in 1..Len(search.out) : search.out[i].chunk_id = "C"
    /\ Len(search.out) = 3

\* the place at which chunk c is first met: vector_results first, then
\* keyword_results
FirstSeen(c) ==
    LET met == [i \in 1..Len(search.vector_results) |->
                   search.vector_results[i].chunk_id]
               \o [i \in 1..Len(search.keyword_results) |->
                      search.keyword_results[i].chunk_id]
    IN CHOOSE i \in 1..Len(met) : met[i] = c /\ \A j \in 1..(i - 1) : met[j] # c

\* chunk c comes before chunk d: a higher accumulated score, or the same
\* score and met earlier
Before(c, d) ==
    \/ ScaledExpected(c) > ScaledExpected(d)
    \/ ScaledExpected(c) = ScaledExpected(d) /\ FirstSeen(c) < FirstSeen(d)

\* C25: the output of fuse is ordered by accumulated score, highest first,
\* and chunks of equal accumulated score are in the order in which they were
\* first met (vector_results first, then the chunks found only in
\* keyword_results, in their order); it is the head of that one order of
\* all chunks, so the same inputs give the same ordered output.
C25_OrderedTiesByFirstSeen ==
    Fused /\ search.raised = ""
       => /\ \A i, j \in 1..Len(search.out) :
                i < j => Before(search.out[i].chunk_id, search.out[j].chunk_id)
          /\ \A i \in 1..Len(search.out) :
                \A c \in InputIds \ { search.out[k].chunk_id : k \in 1..Len(search.out) } :
                   Before(search.out[i].chunk_id, c)

\* C25 witness: B and A, both at rank 0 with equal weights, tie; B, met in
\* vector_results, comes before A, met in keyword_results
C25_Witness ==
    /\ Fused /\ search.raised = ""
    /\ search.vector_weight = search.keyword_weight
    /\ search.vector_weight[1] > 0
    /\ Len(search.vector_results) = 1 /\ search.vector_results[1].chunk_id = "B"
    /\ Len(search.keyword_results) = 2
    /\ search.keyword_results[1].chunk_id = "A"
    /\ search.keyword_results[2].chunk_id = "C"
    /\ Len(search.out) = 3
    /\ search.out[1].chunk_id = "B" /\ search.out[2].chunk_id = "A"
    /\ search.out[1].score = search.out[2].score

(* ------------- the Ollama reranker: scoring behind a semaphore ----------- *)

\* config.params.get("max_concurrent", 5): any value the configuration
\* gives, up to this bound
MaxConcurrent == 2

\* a semaphore that never makes a task wait
NotLockedEver(s) == TRUE

\* not semaphore.locked(): a free slot, and nobody waiting for one
NotLocked(s) == s.value > 0 /\ s.waiters = <<>>

\* await reranker.rerank(query, documents, top_k): asyncio.Semaphore(
\* max_concurrent) and one task per document; no documents, no tasks
OllamaCall ==
    /\ search = NoSearch
    /\ \E n \in 0..MaxResults, top_k \in 1..MaxResults,
          max_concurrent \in 0..MaxConcurrent :
          search' = [ op |-> "ollama", at |-> IF n = 0 THEN "done" ELSE "gather",
                      n |-> n, top_k |-> top_k,
                      max_concurrent |-> max_concurrent,
                      value |-> max_concurrent, waiters |-> <<>>,
                      task |-> [i \in 1..n |-> "created"],
                      requests |-> [i \in 1..n |-> 0],
                      score |-> [i \in 1..n |-> 0],
                      pairs |-> <<>> ]
    /\ UNCHANGED registry

\* the client.post of _score_document for document i goes out
Post(s, i) ==
    [s EXCEPT !.task[i] = "scoring", !.requests[i] = @ + 1]

\* score_with_limit(i): the event loop starts the tasks in the order of the
\* documents; `async with semaphore` is entered at once when the semaphore
\* is not locked, else the task queues up
ScoreStart(i) ==
    /\ search.op = "ollama" /\ search.at = "gather"
    /\ i \in 1..search.n /\ search.task[i] = "created"
    /\ \A j \in 1..(i - 1) : search.task[j] # "created"
    /\ search' = IF NotLocked(search)
                 THEN [Post(search, i) EXCEPT !.value = @ - 1]
                 ELSE [search EXCEPT !.task[i] = "waiting",
                                     !.waiters = Append(@, i)]
    /\ UNCHANGED registry

\* the first waiter is woken when a slot is free
ScoreWake(i) ==
    /\ search.op = "ollama" /\ search.at = "gather"
    /\ search.waiters # <<>> /\ Head(search.waiters) = i
    /\ search.value > 0
    /\ search' = [Post(search, i) EXCEPT !.value = @ - 1,
                                         !.waiters = Tail(@)]
    /\ UNCHANGED registry

\* the request of document i ends: a parsed score, or 0.0 after an error;
\* leaving `async with` releases the semaphore
ScoreDone(i) ==
    /\ search.op = "ollama" /\ search.at = "gather"
    /\ i \in 1..search.n /\ search.task[i] = "scoring"
    /\ \E score \in OllamaScores :
          search' = [search EXCEPT !.task[i] = "done", !.score[i] = score,
                                   !.value = @ + 1]
    /\ UNCHANGED registry

\* asyncio.gather(*tasks) is complete: sort, cut to top_k, return
OllamaReturn ==
    /\ search.op = "ollama" /\ search.at = "gather"
    /\ \A i \in 1..search.n : search.task[i] = "done"
    /\ search' = [search EXCEPT !.at = "done",
                     !.pairs = OllamaRerank(search.score, search.top_k)]
    /\ UNCHANGED registry

NextOllama ==
    \/ OllamaCall
    \/ \E i \in 1..MaxResults :
          \/ ScoreStart(i) \/ ScoreWake(i) \/ ScoreDone(i)
    \/ OllamaReturn

SpecOllama == Init /\ [][NextOllama]_vars

\* the scoring requests in flight
InFlight == { i \in 1..search.n : search.task[i] = "scoring" }

\* C24 (state): at most max_concurrent scoring requests are in flight
C24_Gate ==
    search.op = "ollama" => Cardinality(InFlight) <= search.max_concurrent

\* C24 (state): when rerank has returned, every document was scored once
C24_EachOnce ==
    search.op = "ollama" /\ search.at = "done"
       => \A i \in 1..search.n :
             search.task[i] = "done" /\ search.requests[i] = 1

\* C24: during one rerank call of the Ollama reranker over n documents at
\* most max_concurrent scoring requests are in flight at any time, and each
\* of the n documents has been scored exactly once when rerank returns.
C24_GatedAndComplete == C24_Gate /\ C24_EachOnce

\* C24 witness: three documents behind a semaphore of two: two requests are
\* in flight and the third document waits for a slot
C24_Witness ==
    /\ search.op = "ollama" /\ search.at = "gather"
    /\ search.n = 3 /\ search.max_concurrent = 2
    /\ InFlight = {1, 2} /\ search.waiters = <<3>>

(* ------------------- persistence that fails (OSError) -------------------- *)

\* mkdir, open, write or replace of _write_jsonl raises: the temporary file
\* stays as it is, the primary file is not touched; the exception leaves
\* to_thread, _persist and `async with self._lock`, which releases the
\* lock, and reaches the caller of add_folder or remove_folder
WriteRaises(t) ==
    /\ pc[t] \in {"w_open", "w_write", "w_replace"}
    /\ lock' = None
    /\ frame' = [frame EXCEPT ![t].raised = TRUE]
    /\ pc' = [pc EXCEPT ![t] = frame[t].cont]
    /\ UNCHANGED << cache, fs, waiters, booted, req, runningJob, jobsStarted,
                    clock, events >>
    /\ UNCHANGED search

\* clear, line 172: unlink raises; the cache is already empty
UnlinkRaises(t) ==
    /\ pc[t] = "clear_unlink"
    /\ lock' = None
    /\ frame' = [frame EXCEPT ![t].raised = TRUE]
    /\ pc' = [pc EXCEPT ![t] = frame[t].cont]
    /\ UNCHANGED << cache, fs, waiters, booted, req, runningJob, jobsStarted,
                    clock, events >>
    /\ UNCHANGED search

\* an indexing run records its folder with the count of the ids it gives
AddCounted(t) ==
    /\ NewCall(t)
    /\ \E s \in Spellings, ids \in ChunkIdLists :
          CallMethod(t, "add", s, Len(ids), ids, "done")
    /\ UNCHANGED req
    /\ CallerFrame
    /\ UNCHANGED search

\* the mutating methods called concurrently, with writes that can fail
NextFailing ==
    \/ StartUp \/ InitEnter(0) \/ InitLoad(0) \/ InitDone(0) \/ Started
    \/ \E t \in Workers :
          \/ AddCounted(t) \/ AddEnter(t) \/ AddWake(t)
          \/ RemoveCall(t) \/ RemoveEnter(t) \/ RemoveWake(t)
          \/ ClearCall(t) \/ ClearEnter(t) \/ ClearWake(t) \/ ClearUnlink(t)
          \/ WriteOpen(t) \/ WriteLine(t) \/ WriteReplace(t) \/ PersistDone(t)
          \/ WriteRaises(t) \/ UnlinkRaises(t)
          \/ Return(t)

SpecFailing == Init /\ [][NextFailing]_vars

\* the records of a registry, as a set
Records(c) == { c[i] : i \in 1..Len(c) }

\* this step ends a call of add_folder, remove_folder or clear by task t
Completes(t) ==
    /\ frame[t].op \in {"add", "rm", "clear"}
    /\ pc[t] # "done" /\ pc'[t] = "done"

\* memory and file hold the same records after the step
SameAfter == Records(cache') = Records(OnDisk(fs'))

\* C26 as stated: after every add_or_update, remove or clear has completed,
\* whether it returned or raised because its persistence step failed, the
\* records in memory are the records of the persisted file (a failed
\* persistence step leaves the registry as it was before the call).
C26_MemoryIsFile ==
    [][\A t \in Workers : Completes(t) => SameAfter]_vars

\* C26 (step), amended: a call that returns after its persistence step
\* leaves memory and file with the same records; a call that raises leaves
\* the primary file untouched and keeps its change of the registry: the
\* added record is there, the removed one is not, the cleared registry is
\* empty
C26_Step ==
    \A t \in Workers :
        Completes(t)
           => IF frame'[t].raised
              THEN /\ fs'[JsonlPath] = fs[JsonlPath]
                   /\ cache' = cache
                   /\ frame[t].op = "add"
                         => DictGet(cache', CanonOf(frame[t].arg)) = frame[t].record
                   /\ frame[t].op = "rm"
                         => DictGet(cache', CanonOf(frame[t].arg)) = None
                   /\ frame[t].op = "clear" => cache' = <<>>
              ELSE pc[t] = "persisted" => SameAfter

\* C26, amended: as C26_Step, at every step
C26_KeptOnFailure == [][C26_Step]_vars

\* C26 witness: add_folder has raised; its record is in memory and not in
\* the file
C26_Witness ==
    \E t \in Workers :
        /\ pc[t] = "done" /\ frame[t].op = "add" /\ frame[t].raised
        /\ frame[t].record # None
        /\ frame[t].record[1] \in Records(cache)
        /\ frame[t].record[1] \notin Records(OnDisk(fs))

(* ------------------ the delete request and later adds -------------------- *)

\* C27: the record a delete request takes out of the registry is the
\* record whose chunk_ids it passed to the storage delete; a record that an
\* add_folder put in its place after the request's lookup is not removed.
C27_RemovesWhatItDeleted ==
    [][\A t \in Tasks :
          BodyOf(t, "rm") /\ frame[t].cont = "del_removed"
             => LET held == DictGet(cache, req[t].normalized_path)
                IN held # None => held = req[t].record]_vars

(* --------------------- two delete requests at once ----------------------- *)

\* two requests in progress that looked up the same record of one folder
SameRecord(t, u) ==
    /\ t # u
    /\ req[t].normalized_path = req[u].normalized_path
    /\ req[t].record # None
    /\ req[t].record = req[u].record

\* C28: of two concurrent delete requests for one indexed folder only one
\* calls the storage delete for the folder's record and only one answers
\* 200; the other answers 404.
C28_OneDeleteWins ==
    \A t \in Workers : \A u \in Workers :
        /\ ~SameRecord(t, u)
        /\ ~ (/\ t # u
              /\ req[t].normalized_path = req[u].normalized_path
              /\ req[t].status = HTTP_200_OK
              /\ req[u].status = HTTP_200_OK)

(* ------------- a new instance, its methods called in any order ----------- *)

\* a call on a FolderManager that __init__ (lines 47-56) has just built:
\* nothing in the class makes a caller wait for initialize()
CallAnyTime(t) ==
    /\ events < MaxEvents
    /\ t \in Workers
    /\ pc[t] = "idle"
    /\ \A u \in Workers : u < t => pc[u] # "idle"
    /\ events' = events + 1

\* initialize() called at any time
InitAnyTime(t) ==
    /\ CallAnyTime(t)
    /\ CallMethod(t, "init", <<>>, 0, <<>>, "done")
    /\ UNCHANGED req
    /\ CallerFrame
    /\ UNCHANGED search

\* add_folder(folder_path, len(chunk_ids), chunk_ids) called at any time
AddAnyTime(t) ==
    /\ CallAnyTime(t)
    /\ \E s \in Spellings, ids \in ChunkIdLists :
          CallMethod(t, "add", s, Len(ids), ids, "done")
    /\ UNCHANGED req
    /\ CallerFrame
    /\ UNCHANGED search

\* remove_folder(folder_path) called at any time
RemoveAnyTime(t) ==
    /\ CallAnyTime(t)
    /\ \E s \in Spellings : CallMethod(t, "rm", s, 0, <<>>, "done")
    /\ UNCHANGED req
    /\ CallerFrame
    /\ UNCHANGED search

\* the FolderManager with initialize, add_folder and remove_folder called
\* in every order over the file an earlier instance left
NextAnyOrder ==
    \E t \in Workers :
       \/ InitAnyTime(t) \/ InitEnter(t) \/ InitWake(t) \/ InitLoad(t) \/ InitDone(t)
       \/ AddAnyTime(t) \/ AddEnter(t) \/ AddWake(t)
       \/ RemoveAnyTime(t) \/ RemoveEnter(t) \/ RemoveWake(t)
       \/ WriteJsonl(t) \/ PersistDone(t)
       \/ Return(t)

SpecAnyOrder == Init /\ [][NextAnyOrder]_vars

\* the records a reader finds in the persisted file
Persisted(files) ==
    IF files[JsonlPath] = None THEN {}
    ELSE Records(LoadJsonl(files[JsonlPath][1]))

\* C29: a write of the file by add_folder or remove_folder keeps every
\* record the file held for a folder other than the one the call names,
\* whatever the order of initialize, add_folder and remove_folder.
C29_OthersKept ==
    [][\A t \in Workers :
          frame[t].op \in {"add", "rm"} /\ pc[t] = "w_open" /\ pc'[t] = "persisted"
             => \A r \in Persisted(fs) :
                   r.folder_path # Resolve(frame[t].arg) => r \in Persisted(fs')]_vars

(* ------------------ concurrent adds of the same folder ------------------- *)

\* asyncio.gather starts add_folder calls that name one folder or another,
\* in different spellings, on a started FolderManager
AddAgain(t) ==
    /\ booted
    /\ pc[0] = "idle"
    /\ t \in Adders
    /\ pc[t] = "idle"
    /\ \E s \in Spellings :
          CallMethod(t, "add", s, 2, <<"c1", "c2">>, "done")
    /\ UNCHANGED << req, events >>
    /\ CallerFrame
    /\ UNCHANGED search

\* the gather of adds, several of them for the same folder
NextSameFolder ==
    \/ StartUp \/ InitEnter(0) \/ InitLoad(0) \/ InitDone(0) \/ Started
    \/ \E t \in Adders :
          \/ AddAgain(t) \/ AddEnter(t) \/ AddWake(t)
          \/ WriteJsonl(t) \/ PersistDone(t)

SpecSameFolder == InitAdds /\ [][NextSameFolder]_vars

\* the last_indexed the registry c holds for path p
LastIndexed(c, p) == DictGet(c, p)[1].last_indexed

\* the folders a call can name
Folders == { Resolve(s) : s \in Spellings }

=============================================================================
